---- MODULE Spec2Model ----
(***************************************************************************)
(* SoftScript: the AppleSoft BASIC assembler and disassembler, the byte    *)
(* utilities, and the cassette WAVE generator and reader.                  *)
(*                                                                         *)
(* Text is a sequence of character codes (ASCII), a byte vector a sequence *)
(* of numbers in 0..255.  A call that can throw returns a record           *)
(* [ok, value, error]: ok = FALSE stands for the exception, error names it.*)
(***************************************************************************)
EXTENDS Integers, Sequences, FiniteSets, TLC

VARIABLES
    lines,              \* ApplesoftAssembler.lines: the source program
    assembled,          \* outcome of assemble()
    mapped,             \* outcome of assembleMappedToInstruction()
    disPc,              \* position of disassemble(): "idle", "loop", "done", "error"
    disBytes,           \* ApplesoftDisassembler.bytes
    currentAddress,     \* disassemble's currentAddress
    disassembledLines,  \* disassemble's disassembledLines
    uBytes,             \* byte vector handed to a DataUtil function
    uIndex,             \* index handed to readInt16
    uBits,              \* bit vector handed to bitsToBytesAndValidateChecksum
    uOp,                \* the DataUtil call made last ("none" before any)
    uOut,               \* its outcome
    shouldAutoRun,      \* generate's argument
    wave,               \* the WAVE file generate() returned
    damage,             \* <<index, value>> of the byte of the program block
                        \* changed in the file before it is read, or <<>>
    wavePc,             \* "idle", "start", "samples", "optimized", "readLength",
                        \* "length", "readProgram", "done", "error"
    runIndex,           \* read(): the run of samples that handleSample is at
    runStart,           \* read(): the first sample of that run
    lastRecordedFrequency, \* zeroCrossingCounterState.lastRecordedFrequency
    frequencyMap,       \* zeroCrossingCounterState.frequencyMap, as its entries
    sortedKeys,         \* computeOptimizedFrequencyMap's sortedKeys
    currentKeyIndex,    \* computeOptimizedFrequencyMap's currentKeyIndex
    rbSample,           \* readBytes' sample
    rbBits,             \* readBytes' bits
    lengthBytes,        \* readProgramLength's validated length-record bytes
    programLength,      \* readProgram's programLength
    readResult,         \* outcome of WaveFileReader.read()
    rereads,            \* read() calls begun on the reader after its first
    firstResult,        \* how the first read() call ended and its outcome
    zeroCrossingCounterState, \* the reader's state while read() hands it the
                        \* samples one at a time
    nextSample          \* read(): the sample its loop hands to handleSample next

asmVars == <<lines, assembled, mapped, disPc, disBytes, currentAddress, disassembledLines>>
utilVars == <<uBytes, uIndex, uBits, uOp, uOut>>
zeroCrossingVars == <<runIndex, runStart, lastRecordedFrequency, frequencyMap>>
readBytesVars == <<sortedKeys, currentKeyIndex, rbSample, rbBits>>
rereadVars == <<rereads, firstResult>>
sampleVars == <<zeroCrossingCounterState, nextSample>>
waveVars == <<shouldAutoRun, wave, damage, wavePc, zeroCrossingVars, readBytesVars,
              lengthBytes, programLength, readResult, rereadVars, sampleVars>>
vars == <<asmVars, utilVars, waveVars>>

-----------------------------------------------------------------------------
(* Bounds of the model.                                                    *)

\* Atoms after the line number in a generated source line.
MaxAtoms == 2
\* Lines in a generated program.
MaxLines == 2
\* Lines in a program sent through the WAVE file.
MaxWaveLines == 2
\* Characters of the comment of the long line of a large program.
LongCommentLength == 63480
\* Samples of a file whose frequency map is given.
MaxSamples == 900
\* read() calls on a reader after its first.
MaxRereads == 1
\* Lines in a program whose block is damaged in the WAVE file.
MaxDamagedLines == 1
\* Length of the byte vectors handed to disassemble().
MaxRawBytes == 7
\* Length of the byte vectors handed to the DataUtil functions.
MaxBytes == 3
\* Bits that may follow the last whole byte of a bit vector.
MaxExtraBits == 2

-----------------------------------------------------------------------------
(* Outcomes.                                                               *)

Ok(v) == [ok |-> TRUE, value |-> v, error |-> ""]
Err(e) == [ok |-> FALSE, value |-> <<>>, error |-> e]
None == [ok |-> FALSE, value |-> <<>>, error |-> "none"]

-----------------------------------------------------------------------------
(* JavaScript's integer operators on non-negative numbers.                 *)

RECURSIVE BitXor(_, _)
BitXor(a, b) ==
    IF a = 0 THEN b
    ELSE IF b = 0 THEN a
    ELSE (((a % 2) + (b % 2)) % 2) + 2 * BitXor(a \div 2, b \div 2)

RECURSIVE BitOr(_, _)
BitOr(a, b) ==
    IF a = 0 THEN b
    ELSE IF b = 0 THEN a
    ELSE (IF (a % 2) = 1 \/ (b % 2) = 1 THEN 1 ELSE 0) + 2 * BitOr(a \div 2, b \div 2)

BitAnd1(a) == a % 2

ShiftLeft(a, k) == a * (2 ^ k)

ShiftRight(a, k) == a \div (2 ^ k)

\* Math.ceil(a / b) for positive integers.
CeilDiv(a, b) == (a + b - 1) \div b

\* Array.prototype.slice(from, to) with 0-based bounds, to exclusive; a
\* negative to counts from the end.
Slice(s, from, to) ==
    LET t == IF to < 0 THEN Len(s) + to ELSE to
        hi == IF t > Len(s) THEN Len(s) ELSE t
    IN  IF hi <= from THEN <<>> ELSE SubSeq(s, from + 1, hi)

RECURSIVE Flatten(_)
Flatten(ss) == IF ss = <<>> THEN <<>> ELSE Head(ss) \o Flatten(Tail(ss))

-----------------------------------------------------------------------------
(* DataUtil.                                                               *)

ReadInt16Swapped(bytes, index) ==
    IF index + 1 >= Len(bytes)
    THEN Err("OutOfRange")
    ELSE Ok(BitOr(ShiftLeft(bytes[index + 1], 8), bytes[index + 2]))

\* readInt16: bytes[index] is the element at position index + 1 here.
readInt16(bytes, index) ==
    IF index + 1 >= Len(bytes)
    THEN Err("OutOfRange")
    ELSE Ok(BitOr(ShiftLeft(bytes[index + 2], 8), bytes[index + 1]))

\* a write of two bytes that throws above 255
WriteUInt16LEOfByte(contents) ==
    IF contents < 0 \/ contents > 255
    THEN Err("OutOfRange")
    ELSE Ok(<<contents % 256, (contents \div 256) % 256>>)

\* Buffer.writeUInt16LE into a 2-byte buffer: throws outside 0..65535.
writeUInt16LE(contents) ==
    IF contents < 0 \/ contents > 65535
    THEN Err("OutOfRange")
    ELSE Ok(<<contents % 256, (contents \div 256) % 256>>)

\* Buffer.writeUInt32LE into a 4-byte buffer: throws outside 0..2^32 - 1.
writeUInt32LE(contents) ==
    IF contents < 0 \/ (contents \div 65536) > 65535
    THEN Err("OutOfRange")
    ELSE Ok(<<contents % 256, (contents \div 256) % 256,
              (contents \div 65536) % 256, (contents \div 16777216) % 256>>)

\* Buffer.writeUint8 into a 1-byte buffer.
writeUInt8(contents) ==
    IF contents < 0 \/ contents > 255 THEN Err("OutOfRange") ELSE Ok(<<contents>>)

createdBufferedUnsignedNumber(bufferLength, contents) ==
    IF bufferLength = 4 THEN writeUInt32LE(contents)
    ELSE IF bufferLength = 2 THEN writeUInt16LE(contents)
    ELSE IF bufferLength = 1 THEN writeUInt8(contents)
    ELSE Err("UnexpectedBufferLength")

createBufferedString(bufferLength, contents) ==
    IF Len(contents) > bufferLength
    THEN Err("Overflow")
    ELSE Ok(contents \o [i \in 1..(bufferLength - Len(contents)) |-> 0])

RECURSIVE ReduceXor(_, _)
ReduceXor(state, bytes) ==
    IF bytes = <<>> THEN state
    ELSE ReduceXor(BitXor(state, Head(bytes)), Tail(bytes))

ComputeChecksumZeroSeed(bytes) == ReduceXor(0, bytes)

computeChecksum(bytes) == ReduceXor(255, bytes)

RECURSIVE PushBits(_, _)
\* the loop of byteToBits: i pushes of byte & 1, byte shifted right each time
PushBits(byte, i) ==
    IF i = 0 THEN <<>> ELSE <<BitAnd1(byte)>> \o PushBits(ShiftRight(byte, 1), i - 1)

Reverse(s) == [i \in 1..Len(s) |-> s[Len(s) + 1 - i]]

byteToBits(byte) == Reverse(PushBits(byte, 8))

RECURSIVE PackBits(_, _)
\* the loop over groupBits in bitsToBytes: byte = (byte << 1) | bit
PackBits(byte, groupBits) ==
    IF groupBits = <<>> THEN byte
    ELSE PackBits(BitOr(ShiftLeft(byte, 1), Head(groupBits)), Tail(groupBits))

RECURSIVE PackBitsLsbFirst(_, _)
PackBitsLsbFirst(byte, groupBits) ==
    IF groupBits = <<>> THEN byte
    ELSE PackBitsLsbFirst(byte + Head(groupBits) * (2 ^ (8 - Len(groupBits))), Tail(groupBits))

BitsToBytesLsbFirst(bits) ==
    [k \in 1..(Len(bits) \div 8) |-> PackBitsLsbFirst(0, SubSeq(bits, 8 * k - 7, 8 * k))]

\* a packing that makes a byte of a trailing group of fewer than 8 bits too
BitsToBytesWithPartialGroup(bits) ==
    [k \in 1..CeilDiv(Len(bits), 8) |->
        PackBits(0, SubSeq(bits, 8 * k - 7, IF 8 * k <= Len(bits) THEN 8 * k ELSE Len(bits)))]

bitsToBytes(bits) ==
    [k \in 1..(Len(bits) \div 8) |-> PackBits(0, SubSeq(bits, 8 * k - 7, 8 * k))]

\* a validation that accepts every checksum
ValidateChecksumNever(bytes, checksum) == Ok(<<>>)

validateChecksum(bytes, checksum) ==
    IF checksum # computeChecksum(bytes) THEN Err("ChecksumMismatch") ELSE Ok(<<>>)

bitsToBytesAndValidateChecksum(bits) ==
    LET bytes == bitsToBytes(bits)
        dataBytes == Slice(bytes, 0, Len(bytes) - 1)
        checksum == IF bytes = <<>> THEN 0 ELSE bytes[Len(bytes)]
        valid == validateChecksum(dataBytes, checksum)
    IN  IF valid.ok THEN Ok(dataBytes) ELSE valid

-----------------------------------------------------------------------------
(* Text helpers: String methods of JavaScript on sequences of codes.       *)

\* \s of the regular expression and of trim(), among the ASCII codes
IsSpace(c) == c \in {9, 10, 11, 12, 13, 32}

IsDigit(c) == c \in 48..57

toLowerCase(str) == [i \in 1..Len(str) |-> IF str[i] \in 65..90 THEN str[i] + 32 ELSE str[i]]

RECURSIVE JoinWith(_, _)
\* Array.prototype.join(sep)
JoinWith(strs, sep) ==
    IF strs = <<>> THEN <<>>
    ELSE IF Len(strs) = 1 THEN Head(strs)
    ELSE Head(strs) \o sep \o JoinWith(Tail(strs), sep)

RECURSIVE LeadingDigits(_)
\* how many decimal digits str starts with
LeadingDigits(str) ==
    IF str = <<>> \/ ~IsDigit(Head(str)) THEN 0 ELSE 1 + LeadingDigits(Tail(str))

RECURSIVE DigitsValue(_, _)
DigitsValue(acc, digits) ==
    IF digits = <<>> THEN acc ELSE DigitsValue(10 * acc + (Head(digits) - 48), Tail(digits))

RECURSIVE SkipSpaces(_)
SkipSpaces(str) == IF str # <<>> /\ IsSpace(Head(str)) THEN SkipSpaces(Tail(str)) ELSE str

\* parseInt(str) in radix 10: leading white space, an optional sign, then the
\* longest run of digits; NaN when there is no digit.  (No source line of
\* the model starts with the 0x prefix that selects radix 16.)
parseInt(str) ==
    LET s1 == SkipSpaces(str)
        signed == s1 # <<>> /\ Head(s1) \in {43, 45}
        s2 == IF signed THEN Tail(s1) ELSE s1
        n == LeadingDigits(s2)
        v == DigitsValue(0, SubSeq(s2, 1, n))
    IN  IF n = 0 THEN [nan |-> TRUE, value |-> 0]
        ELSE [nan |-> FALSE, value |-> IF signed /\ Head(s1) = 45 THEN 0 - v ELSE v]

RECURSIVE NumberToString(_)
\* the decimal text of a non-negative integer, as a template literal prints it
NumberToString(n) ==
    IF n < 10 THEN <<48 + n>> ELSE NumberToString(n \div 10) \o <<48 + (n % 10)>>

RECURSIVE TrimStart(_)
TrimStart(str) == IF str # <<>> /\ IsSpace(Head(str)) THEN TrimStart(Tail(str)) ELSE str

trim(str) == Reverse(TrimStart(Reverse(TrimStart(str))))

RECURSIVE ReplaceAllDoubleSpaces(_)
ReplaceAllDoubleSpaces(str) ==
    IF Len(str) < 2 THEN str
    ELSE IF str[1] = 32 /\ str[2] = 32 THEN ReplaceAllDoubleSpaces(Tail(str))
    ELSE <<Head(str)>> \o ReplaceAllDoubleSpaces(Tail(str))

RECURSIVE ReplaceFirstDoubleSpace(_)
\* str.replace("  ", " "): a string pattern replaces its first occurrence only
ReplaceFirstDoubleSpace(str) ==
    IF Len(str) < 2 THEN str
    ELSE IF str[1] = 32 /\ str[2] = 32 THEN Tail(str)
    ELSE <<Head(str)>> \o ReplaceFirstDoubleSpace(Tail(str))

-----------------------------------------------------------------------------
(* The opcode table (Applesoft.types): entries [code, word] in ascending   *)
(* order of code, as Object.entries lists integer keys.  These are six of  *)
(* its entries: LET, GOTO, REM, PRINT, + and =.                            *)

OpcodeToApplesoftInstructionMap ==
    << <<170, <<76, 69, 84>> >>,
       <<171, <<71, 79, 84, 79>> >>,
       <<178, <<82, 69, 77>> >>,
       <<186, <<80, 82, 73, 78, 84>> >>,
       <<200, <<43>> >>,
       <<208, <<61>> >> >>

RECURSIVE FindOpcode(_, _)
\* Object.entries(map).find((e) => e[1] === datum)?.[0]; 0 for undefined
FindOpcode(entries, datum) ==
    IF entries = <<>> THEN 0
    ELSE IF Head(entries)[2] = datum THEN Head(entries)[1]
    ELSE FindOpcode(Tail(entries), datum)

RECURSIVE LookupOpcode(_, _)
\* map[c]; the empty text for undefined
LookupOpcode(entries, c) ==
    IF entries = <<>> THEN <<>>
    ELSE IF Head(entries)[1] = c THEN Head(entries)[2]
    ELSE LookupOpcode(Tail(entries), c)

-----------------------------------------------------------------------------
(* ApplesoftAssembler.                                                     *)

MaxLineNumberOfUint16 == 65536

MAX_LINE_NUMBER == 63999

STARTING_ADDRESS == 2048

RECURSIVE ClosingQuote(_, _)
\* the position of the first double quote at or after j, 0 when there is none
ClosingQuote(line, j) ==
    IF j > Len(line) THEN 0
    ELSE IF line[j] = 34 THEN j
    ELSE ClosingQuote(line, j + 1)

\* the last position of the run of non-space characters that starts at i
EndOfNonSpace(line, i) ==
    LET ends == { j \in i..Len(line) : j + 1 > Len(line) \/ IsSpace(line[j + 1]) }
    IN  CHOOSE j \in ends : \A k \in ends : j <= k

RECURSIVE MatchAtoms(_, _)
\* line.match(/"[^"]*"|\S+/g) from position i on: at a double quote that has
\* a closing quote the first alternative takes the quoted text, elsewhere
\* the second takes the run of non-space characters; the empty sequence
\* stands for null.
MatchAtoms(line, i) ==
    IF i > Len(line) THEN <<>>
    ELSE IF IsSpace(line[i]) THEN MatchAtoms(line, i + 1)
    ELSE LET q == IF line[i] = 34 THEN ClosingQuote(line, i + 1) ELSE 0
             e == IF q > 0 THEN q ELSE EndOfNonSpace(line, i)
         IN  <<SubSeq(line, i, e)>> \o MatchAtoms(line, e + 1)

\* one datum of a line that is no comment: its opcode, or its characters
DatumBytes(datum) ==
    LET foundOpcode == FindOpcode(OpcodeToApplesoftInstructionMap, datum)
    IN  IF foundOpcode # 0 THEN <<foundOpcode>> ELSE datum

IsCommentLineExact(dataStr) == dataStr # <<>> /\ dataStr[1] = <<82, 69, 77>>

IsCommentLine(dataStr) == dataStr # <<>> /\ toLowerCase(dataStr[1]) = <<114, 101, 109>>

\* the data of a line: its tokenized body
LineData(dataStr) ==
    IF IsCommentLine(dataStr)
    THEN <<178, 32>> \o JoinWith(Tail(dataStr), <<32>>)
    ELSE Flatten([i \in 1..Len(dataStr) |-> DatumBytes(dataStr[i])])

\* lineNumberStr ? parseInt(lineNumberStr) : -1
LineNumber(parts) ==
    IF parts = <<>> THEN [nan |-> FALSE, value |-> 0 - 1] ELSE parseInt(Head(parts))

\* NaN compares false with every number
IsInvalidLineNumber(lineNumber) ==
    ~lineNumber.nan /\ (lineNumber.value < 0 \/ lineNumber.value >= MAX_LINE_NUMBER)

NextInstructionAddressExact(currentAddr, numBytes) == currentAddr + numBytes

NextInstructionAddress(currentAddr, numBytes) == currentAddr + numBytes + 1

\* assembleLine.  Buffer.writeUint16LE throws a RangeError above 65535 and
\* stores 0 for NaN.
assembleLine(currentAddr, line) ==
    LET parts == MatchAtoms(line, 1)
        dataStr == IF parts = <<>> THEN <<>> ELSE Tail(parts)
        lineNumber == LineNumber(parts)
        data == LineData(dataStr)
        numBytes == 2 + 2 + Len(data) + 1
        address == writeUInt16LE(NextInstructionAddress(currentAddr, numBytes))
        number == writeUInt16LE(IF lineNumber.nan THEN 0 ELSE lineNumber.value)
    IN  IF IsInvalidLineNumber(lineNumber) THEN Err("InvalidLineNumber")
        ELSE IF ~address.ok THEN address
        ELSE IF ~number.ok THEN number
        ELSE Ok(address.value \o number.value \o data \o <<0>>)

RECURSIVE AssembleReduce(_, _)
\* the reduce of assemble: state is the flat byte vector so far
AssembleReduce(state, rest) ==
    IF rest = <<>> THEN Ok(state)
    ELSE LET newBytes == assembleLine(Len(state) + STARTING_ADDRESS, Head(rest))
         IN  IF ~newBytes.ok THEN newBytes
             ELSE AssembleReduce(state \o newBytes.value, Tail(rest))

AssembleWithoutTerminator(ls) == AssembleReduce(<<>>, ls)

assemble(ls) ==
    LET lineBytes == AssembleReduce(<<>>, ls)
    IN  IF lineBytes.ok THEN Ok(lineBytes.value \o <<0, 0>>) ELSE lineBytes

RECURSIVE MappedReduce(_, _)
\* the reduce of assembleMappedToInstruction: state is the list of per-line
\* byte vectors so far, and state.length the number of lines in it
MappedReduce(state, rest) ==
    IF rest = <<>> THEN Ok(state)
    ELSE LET newBytes == assembleLine(Len(state) + STARTING_ADDRESS, Head(rest))
         IN  IF ~newBytes.ok THEN newBytes
             ELSE MappedReduce(Append(state, newBytes.value), Tail(rest))

assembleMappedToInstruction(ls) ==
    LET baseLines == MappedReduce(<<>>, ls)
    IN  IF baseLines.ok THEN Ok(Append(baseLines.value, <<0, 0>>)) ELSE baseLines

-----------------------------------------------------------------------------
(* ApplesoftDisassembler.                                                  *)

\* one byte of the data as text: " WORD " for an opcode, else the character
RenderByte(c) ==
    LET opCode == LookupOpcode(OpcodeToApplesoftInstructionMap, c)
    IN  IF opCode # <<>> THEN <<32>> \o opCode \o <<32>> ELSE <<c>>

DataString(dataBytes) ==
    trim(ReplaceFirstDoubleSpace(Flatten([i \in 1..Len(dataBytes) |-> RenderByte(dataBytes[i])])))

DataBytes(bytes) == Slice(bytes, 4, Len(bytes) - 2)

\* a decoding that accepts every slice and gives the address of the line
\* itself, plus the 1 that disassemble subtracts, for that of the next line
DisassembleLineInPlace(bytes) ==
    Ok([nextInstructionAddress |-> currentAddress + 1,
        line |-> 0,
        dataBytes |-> <<>>,
        dataString |-> <<>>,
        fullInstruction |-> <<48, 32>>])

disassembleLine(bytes) ==
    LET nextInstructionAddress == readInt16(bytes, 0)
        line == readInt16(bytes, 2)
        dataBytes == DataBytes(bytes)
        dataString == DataString(dataBytes)
    IN  IF ~nextInstructionAddress.ok THEN nextInstructionAddress
        ELSE IF ~line.ok THEN line
        ELSE Ok([nextInstructionAddress |-> nextInstructionAddress.value,
                 line |-> line.value,
                 dataBytes |-> dataBytes,
                 dataString |-> dataString,
                 fullInstruction |-> NumberToString(line.value) \o <<32>> \o dataString])

-----------------------------------------------------------------------------
(* The source programs of the model.  A line is a line-number text and up  *)
(* to MaxAtoms atoms joined by single spaces; a program is one such line   *)
(* with fixed lines before and after it, MaxLines lines at most.           *)

\* REM, rem, PRINT, =, X$ and "A B"
Atoms ==
    { <<82, 69, 77>>, <<114, 101, 109>>, <<80, 82, 73, 78, 84>>, <<61>>,
      <<88, 36>>, <<34, 65, 32, 66, 34>> }

\* 0, 1, 63998, 63999, -1 and no line number at all
LineNumberTexts ==
    { <<48>>, <<49>>, <<54, 51, 57, 57, 56>>, <<54, 51, 57, 57, 57>>, <<45, 49>>, <<>> }

Bodies == UNION { [1..n -> Atoms] : n \in 0..MaxAtoms }

MkLine(number, atoms) ==
    JoinWith((IF number = <<>> THEN <<>> ELSE <<number>>) \o atoms, <<32>>)

SourceLines == { MkLine(number, atoms) : number \in LineNumberTexts, atoms \in Bodies }

\* `5 GOTO 1` and ` 20  PRINT  X$ + "A  B"` (with the doubled spaces)
FollowLines ==
    { <<53, 32, 71, 79, 84, 79, 32, 49>>,
      <<32, 50, 48, 32, 32, 80, 82, 73, 78, 84, 32, 32, 88, 36, 32, 43, 32,
        34, 65, 32, 32, 66, 34>> }

FollowSeqs == UNION { [1..n -> FollowLines] : n \in 0..(MaxLines - 1) }

Programs ==
    { <<>> } \cup
    { p \in { pre \o <<line>> \o post :
                 line \in SourceLines, pre \in FollowSeqs, post \in FollowSeqs } :
        Len(p) <= MaxLines }

-----------------------------------------------------------------------------
(* Assembling a program and disassembling the bytes.                       *)

\* a state that is the one the last read() left
KeptZeroCrossingCounterState ==
    [frequencyMap |-> frequencyMap,
     optimizedFrequencyMap |-> sortedKeys,
     lastCrossingTime |-> runStart,
     lastFrequency |-> 0,
     lastRecordedFrequency |-> lastRecordedFrequency,
     signal |-> "high"]

\* getInitialZeroCrossingCounterState: a new state at every call
getInitialZeroCrossingCounterState ==
    [frequencyMap |-> <<>>,
     optimizedFrequencyMap |-> <<>>,
     lastCrossingTime |-> 0,
     lastFrequency |-> 0,
     lastRecordedFrequency |-> 0,
     signal |-> "high"]

\* the reader before read() has handed it a sample
SamplesIdle ==
    /\ zeroCrossingCounterState = getInitialZeroCrossingCounterState
    /\ nextSample = 0

AsmIdle ==
    /\ assembled = None
    /\ mapped = None
    /\ disPc = "idle"
    /\ disBytes = <<>>
    /\ currentAddress = 0
    /\ disassembledLines = <<>>

UtilIdle ==
    /\ uBytes = <<>>
    /\ uIndex = 0
    /\ uBits = <<>>
    /\ uOp = "none"
    /\ uOut = None

WaveIdle ==
    /\ shouldAutoRun = FALSE
    /\ wave = <<>>
    /\ damage = <<>>
    /\ wavePc = "idle"
    /\ runIndex = 0
    /\ runStart = 0
    /\ lastRecordedFrequency = 0
    /\ frequencyMap = <<>>
    /\ sortedKeys = <<>>
    /\ currentKeyIndex = 0
    /\ rbSample = 0
    /\ rbBits = <<>>
    /\ lengthBytes = <<>>
    /\ programLength = 0
    /\ readResult = None
    /\ rereads = 0
    /\ firstResult = <<>>
    /\ SamplesIdle

Init ==
    /\ lines \in Programs
    /\ AsmIdle
    /\ UtilIdle
    /\ WaveIdle

\* new ApplesoftAssembler(lines).assemble()
Assemble ==
    /\ assembled = None
    /\ assembled' = assemble(lines)
    /\ UNCHANGED <<lines, mapped, disPc, disBytes, currentAddress, disassembledLines>>
    /\ UNCHANGED <<utilVars, waveVars>>

\* new ApplesoftAssembler(lines).assembleMappedToInstruction()
AssembleMapped ==
    /\ assembled # None
    /\ mapped = None
    /\ mapped' = assembleMappedToInstruction(lines)
    /\ UNCHANGED <<lines, assembled, disPc, disBytes, currentAddress, disassembledLines>>
    /\ UNCHANGED <<utilVars, waveVars>>

\* new ApplesoftDisassembler(assembled).disassemble(), up to its loop
DisassembleStart ==
    /\ assembled.ok
    /\ mapped # None
    /\ disPc = "idle"
    /\ disBytes' = assembled.value
    /\ currentAddress' = 2048
    /\ disassembledLines' = <<>>
    /\ disPc' = "loop"
    /\ UNCHANGED <<lines, assembled, mapped>>
    /\ UNCHANGED <<utilVars, waveVars>>

\* a test that stops the loop at a null next address only
IsNullNextAddress(address, instructionLength) == address = 0

\* disassemble(): the test that ends the loop at an invalid next address
IsInvalidNextAddress(address, instructionLength) ==
    address = 0 \/ instructionLength < 0

\* one pass of the loop of disassemble(): the loop test, then the body
DisassembleStep ==
    /\ disPc = "loop"
    /\ LET idx == currentAddress - 2048
           address == readInt16(disBytes, idx)
           instructionLength == address.value - currentAddress
           relevantBytes == Slice(disBytes, idx, idx + instructionLength)
           disassembled == disassembleLine(relevantBytes)
       IN  IF ~(currentAddress - 2048 < Len(disBytes))
           THEN disPc' = "done" /\ UNCHANGED <<currentAddress, disassembledLines>>
           ELSE IF ~address.ok
           THEN disPc' = "error" /\ UNCHANGED <<currentAddress, disassembledLines>>
           ELSE IF IsInvalidNextAddress(address.value, instructionLength)
           THEN disPc' = "done" /\ UNCHANGED <<currentAddress, disassembledLines>>
           ELSE IF ~disassembled.ok
           THEN disPc' = "error" /\ UNCHANGED <<currentAddress, disassembledLines>>
           ELSE /\ disassembledLines' = Append(disassembledLines, disassembled.value)
                /\ currentAddress' = disassembled.value.nextInstructionAddress - 1
                /\ disPc' = "loop"
    /\ UNCHANGED <<lines, assembled, mapped, disBytes>>
    /\ UNCHANGED <<utilVars, waveVars>>

Next ==
    \/ Assemble
    \/ AssembleMapped
    \/ DisassembleStart
    \/ DisassembleStep

Spec == Init /\ [][Next]_vars

-----------------------------------------------------------------------------
(* What the properties below say about source text and program images.     *)

\* the first atom of a line, the empty text when the line has none
FirstAtom(line) ==
    LET parts == MatchAtoms(line, 1) IN IF parts = <<>> THEN <<>> ELSE Head(parts)

AllDigits(text) == text # <<>> /\ \A i \in 1..Len(text) : IsDigit(text[i])

\* a line whose line number is a decimal integer in [0, 63998]
HasValidLineNumber(line) ==
    /\ AllDigits(FirstAtom(line))
    /\ DigitsValue(0, FirstAtom(line)) <= 63998

\* a line whose line number is written as the disassembler prints it: in
\* decimal digits, without a leading zero
HasPlainLineNumber(line) ==
    /\ HasValidLineNumber(line)
    /\ (Len(FirstAtom(line)) = 1 \/ Head(FirstAtom(line)) # 48)

\* a line with no line number, a negative one, or one of 63999 or more
HasInvalidLineNumber(line) ==
    \/ FirstAtom(line) = <<>>
    \/ /\ Head(FirstAtom(line)) = 45
       /\ AllDigits(Tail(FirstAtom(line)))
       /\ DigitsValue(0, Tail(FirstAtom(line))) > 0
    \/ /\ AllDigits(FirstAtom(line))
       /\ DigitsValue(0, FirstAtom(line)) >= 63999

WellFormed(ls) == \A i \in 1..Len(ls) : HasPlainLineNumber(ls[i])

StripSpaces(text) == SelectSeq(text, LAMBDA c : c # 32)

\* a line with the keyword of its REM comment, if it is one, in upper case
WithUpperCaseRem(line) ==
    LET parts == MatchAtoms(line, 1)
    IN  IF Len(parts) >= 2 /\ toLowerCase(parts[2]) = <<114, 101, 109>>
        THEN JoinWith(<<parts[1], <<82, 69, 77>> >> \o SubSeq(parts, 3, Len(parts)), <<32>>)
        ELSE line

\* the 16-bit little-endian value at 0-based offset o of image
FieldAt(image, o) == image[o + 1] + 256 * image[o + 2]

RECURSIVE NullAtOrAfter(_, _)
\* the first 0-based offset at or after o that holds 0x00
NullAtOrAfter(image, o) ==
    IF o >= Len(image) \/ image[o + 1] = 0 THEN o ELSE NullAtOrAfter(image, o + 1)

RECURSIVE LineOffsets(_, _)
\* the 0-based offsets at which the tokenized lines of a program image start,
\* from offset o on: a line runs to the first 0x00 after its two 16-bit
\* fields, and the image ends with 0x00 0x00 where the next line would start
LineOffsets(image, o) ==
    IF o + 2 >= Len(image) THEN <<>>
    ELSE <<o>> \o LineOffsets(image, NullAtOrAfter(image, o + 4) + 1)

\* the byte count of the k-th tokenized line of image
LineLength(image, k) ==
    LET offsets == LineOffsets(image, 0)
    IN  (IF k < Len(offsets) THEN offsets[k + 1] ELSE Len(image) - 2) - offsets[k]

RECURSIVE SumLen(_)
SumLen(ss) == IF ss = <<>> THEN 0 ELSE Len(Head(ss)) + SumLen(Tail(ss))

\* the tokenized line the layout rule gives for a line with this body,
\* assembled at address a
LaidOutLine(a, line, data) ==
    LET n == Len(data) + 5
        number == DigitsValue(0, FirstAtom(line))
    IN  << (a + n + 1) % 256, (a + n + 1) \div 256, number % 256, number \div 256 >>
        \o data \o <<0>>

\* the bodies of the lines of a program
ProgramData(ls) == [i \in 1..Len(ls) |-> LineData(Tail(MatchAtoms(ls[i], 1)))]

\* the image the layout rule gives for a program: line i is assembled at
\* 0x0800 plus the byte counts of the lines before it
LaidOutProgram(ls) ==
    LET data == ProgramData(ls)
    IN  Flatten([i \in 1..Len(ls) |->
            LaidOutLine(2048 + SumLen(SubSeq(data, 1, i - 1)) + 5 * (i - 1), ls[i], data[i])])
        \o <<0, 0>>

-----------------------------------------------------------------------------
(* C1.  Disassembling the assembled bytes of a well-formed program gives   *)
(* one line per source line, in order, equal to its source line up to      *)
(* white space.                                                            *)

-----------------------------------------------------------------------------
(* C4.  assemble fails with an invalid-line-number error when a line has   *)
(* no line number, a negative one or one >= 63999, and accepts line        *)
(* numbers in [0, 63998].                                                  *)

-----------------------------------------------------------------------------
(* C5.  The per-line byte vectors of assembleMappedToInstruction,          *)
(* concatenated, are the byte vector of assemble, and the last one is the  *)
(* terminator.                                                             *)

C5_MappedConcatIsAssemble ==
    (assembled.ok /\ mapped.ok) =>
        /\ Flatten(mapped.value) = assembled.value
        /\ Len(mapped.value) = Len(lines) + 1
        /\ mapped.value[Len(mapped.value)] = <<0, 0>>

-----------------------------------------------------------------------------
(* C6.  The next-line address fields of a program image chain: each is the *)
(* one before plus the byte count of its line.                             *)

\* C6 as claimed: the first field is 0x0800 plus the first line's byte count.
C6_FirstAddressIsStartPlusLength ==
    (assembled.ok /\ Len(lines) >= 1) =>
        FieldAt(assembled.value, 0) = 2048 + LineLength(assembled.value, 1)

\* C6 amended: the first field is 0x0800 plus the first line's byte count
\* plus 1, and each later field is the field before it plus the byte count
\* of its own line.
C6_AddressChain ==
    assembled.ok =>
        LET image == assembled.value
            offsets == LineOffsets(image, 0)
        IN  /\ Len(offsets) = Len(lines)
            /\ Len(lines) >= 1 => FieldAt(image, 0) = 2048 + LineLength(image, 1) + 1
            /\ \A k \in 2..Len(offsets) :
                  FieldAt(image, offsets[k])
                      = FieldAt(image, offsets[k - 1]) + LineLength(image, k)

\* a program of two lines of different byte counts has been assembled
C6_Witness ==
    /\ assembled.ok
    /\ Len(lines) = 2
    /\ LineLength(assembled.value, 1) # LineLength(assembled.value, 2)

-----------------------------------------------------------------------------
(* C7.  A line with a body of m bytes assembled at address a takes         *)
(* n = m + 5 bytes: a + n + 1, the line number, the body, 0x00; assemble   *)
(* starts at 0x0800, advances by n and ends the image with 0x00 0x00.      *)

C7_LineLayout ==
    (WellFormed(lines) /\ assembled # None) =>
        /\ assembled.ok
        /\ assembled.value = LaidOutProgram(lines)

\* a two-line program whose first line has a body of more than one byte has
\* been assembled
C7_Witness ==
    /\ WellFormed(lines)
    /\ assembled.ok
    /\ Len(lines) = 2
    /\ Len(ProgramData(lines)[1]) > 1

-----------------------------------------------------------------------------
(* Calls of the DataUtil functions.  The byte vectors are drawn from four  *)
(* byte values closed under XOR with 0xFF (0x00, 0x35, 0xCA, 0xFF), so that *)
(* vectors that end with their own checksum are among them; a bit vector   *)
(* is the bits of a byte vector followed by up to MaxExtraBits more bits.  *)

ByteValues == {0, 53, 202, 255}

ByteVectors == UNION { [1..n -> ByteValues] : n \in 0..MaxBytes }

ExtraBits == UNION { [1..n -> {0, 1}] : n \in 0..MaxExtraBits }

BitsOf(bytes) == Flatten([i \in 1..Len(bytes) |-> byteToBits(bytes[i])])

InitUtil ==
    /\ uBytes \in ByteVectors
    /\ uIndex \in 0..MaxBytes
    /\ uBits \in { BitsOf(uBytes) \o extra : extra \in ExtraBits }
    /\ uOp = "none"
    /\ uOut = None
    /\ lines = <<>>
    /\ AsmIdle
    /\ WaveIdle

\* computeChecksum(uBytes), then computeChecksum of uBytes followed by it
CallComputeChecksum ==
    /\ uOp = "none"
    /\ uOp' = "computeChecksum"
    /\ uOut' = Ok(<<computeChecksum(uBytes),
                    computeChecksum(Append(uBytes, computeChecksum(uBytes)))>>)
    /\ UNCHANGED <<uBytes, uIndex, uBits, asmVars, waveVars>>

\* readInt16(uBytes, uIndex)
CallReadInt16 ==
    /\ uOp = "none"
    /\ uOp' = "readInt16"
    /\ uOut' = (LET r == readInt16(uBytes, uIndex)
                IN  IF r.ok THEN Ok(<<r.value>>) ELSE r)
    /\ UNCHANGED <<uBytes, uIndex, uBits, asmVars, waveVars>>

\* the number whose high byte is uBytes[1] and low byte uBytes[2]
WordOf(bytes) == 256 * bytes[1] + bytes[2]

\* readInt16(createdBufferedUnsignedNumber(2, n), 0) for the number n that
\* the first two bytes of uBytes spell
CallWriteThenReadInt16 ==
    /\ uOp = "none"
    /\ Len(uBytes) >= 2
    /\ uOp' = "writeThenReadInt16"
    /\ uOut' = (LET w == createdBufferedUnsignedNumber(2, WordOf(uBytes))
                    r == readInt16(w.value, 0)
                IN  IF ~w.ok THEN w ELSE IF r.ok THEN Ok(<<r.value>>) ELSE r)
    /\ UNCHANGED <<uBytes, uIndex, uBits, asmVars, waveVars>>

\* bitsToBytesAndValidateChecksum(uBits)
CallBitsToBytesAndValidateChecksum ==
    /\ uOp = "none"
    /\ uOp' = "bitsToBytesAndValidateChecksum"
    /\ uOut' = bitsToBytesAndValidateChecksum(uBits)
    /\ UNCHANGED <<uBytes, uIndex, uBits, asmVars, waveVars>>

NextUtil ==
    \/ CallComputeChecksum
    \/ CallReadInt16
    \/ CallWriteThenReadInt16
    \/ CallBitsToBytesAndValidateChecksum

SpecUtil == InitUtil /\ [][NextUtil]_vars

-----------------------------------------------------------------------------
(* C8.  The checksum of a byte vector followed by its own checksum.        *)

\* C8 as claimed: it is 0xFF.
C8_AppendedChecksumIsFF ==
    uOp = "computeChecksum" => uOut.value[2] = 255

\* C8 amended: computeChecksum of B followed by computeChecksum(B) is 0x00
\* for every byte vector B, the empty one included; computeChecksum([]) is
\* 0xFF and computeChecksum([0xFF]) is 0x00.
C8_AppendedChecksumIsZero ==
    uOp = "computeChecksum" =>
        /\ uOut.value[2] = 0
        /\ uBytes = <<>> => uOut.value[1] = 255
        /\ uBytes = <<255>> => uOut.value[1] = 0

\* the checksum of a vector of MaxBytes bytes and of it with its checksum
\* appended have been computed
C8_Witness ==
    /\ uOp = "computeChecksum"
    /\ Len(uBytes) = MaxBytes
    /\ uOut.value[1] \notin {0, 255}

-----------------------------------------------------------------------------
(* C9.  readInt16(bytes, index) is bytes[index] + 256 * bytes[index + 1]   *)
(* when index + 1 < len(bytes) and fails otherwise; the two bytes written  *)
(* little-endian for n in [0, 2^16) read back as n.                        *)

C9_ReadInt16 ==
    /\ uOp = "readInt16" =>
          IF uIndex + 1 < Len(uBytes)
          THEN uOut = Ok(<<uBytes[uIndex + 1] + 256 * uBytes[uIndex + 2]>>)
          ELSE uOut = Err("OutOfRange")
    /\ uOp = "writeThenReadInt16" => uOut = Ok(<<WordOf(uBytes)>>)

\* 0xCA35 has been written and read back
C9_Witness ==
    /\ uOp = "writeThenReadInt16"
    /\ WordOf(uBytes) = 51765
    /\ uOut.ok

-----------------------------------------------------------------------------
(* C10.  bitsToBytesAndValidateChecksum packs the bits MSB-first, drops a  *)
(* trailing group of fewer than 8 bits, and returns the bytes before the   *)
(* last one when the last one is their checksum; it fails with a checksum  *)
(* mismatch in every other case.                                           *)

\* the k-th byte of a bit vector, most significant bit first
PackedByte(bits, k) ==
    128 * bits[8 * k - 7] + 64 * bits[8 * k - 6] + 32 * bits[8 * k - 5]
    + 16 * bits[8 * k - 4] + 8 * bits[8 * k - 3] + 4 * bits[8 * k - 2]
    + 2 * bits[8 * k - 1] + bits[8 * k]

C10_BitsToBytesValidated ==
    uOp = "bitsToBytesAndValidateChecksum" =>
        LET count == Len(uBits) \div 8
            preceding == [k \in 1..(count - 1) |-> PackedByte(uBits, k)]
        IN  IF count >= 1 /\ PackedByte(uBits, count) = computeChecksum(preceding)
            THEN uOut = Ok(preceding)
            ELSE uOut = Err("ChecksumMismatch")

\* a bit vector of two bytes and their checksum, with bits left over, has
\* been validated and its two bytes returned
C10_Witness ==
    /\ uOp = "bitsToBytesAndValidateChecksum"
    /\ Len(uBits) > 24
    /\ uOut.ok
    /\ Len(uOut.value) = 2
    /\ uOut.value[1] # uOut.value[2]

-----------------------------------------------------------------------------
(* WaveFileGenerator.  A sound is a tone: its frequency, its length in     *)
(* half cycles (cycles: 0.5 is one half cycle) and whether it is inverted. *)
(* The buffer generateSound fills is held as the tone together with its    *)
(* number of samples, one byte each, and the data of the file as the       *)
(* sequence of these runs: the samples of a run are the sine of the tone   *)
(* from phase 0 (from half a cycle on when inverted).                      *)

SAMPLE_RATE == 48000

FORMAT_TYPE == 1

NUMBER_CHANNELS == 1

BYTES_PER_SAMPLE == 1

BITS_PER_SAMPLE == BYTES_PER_SAMPLE * 8

Sound(frequency, halfCycles, invert) ==
    [frequency |-> frequency, halfCycles |-> halfCycles, invert |-> invert]

\* the outcomes of the parts of a buffer, joined; the first failure if any
ConcatParts(parts) ==
    IF \E i \in 1..Len(parts) : ~parts[i].ok
    THEN parts[CHOOSE i \in 1..Len(parts) :
                   ~parts[i].ok /\ \A j \in 1..(i - 1) : parts[j].ok]
    ELSE Ok(Flatten([i \in 1..Len(parts) |-> parts[i].value]))

\* getHeader: the 44 bytes before the samples
getHeader(dataSizeBytes) ==
    LET headerSize == 44
        fileSize == dataSizeBytes + headerSize - 8
    IN  ConcatParts(<<
            createBufferedString(4, <<82, 73, 70, 70>>),
            createdBufferedUnsignedNumber(4, fileSize),
            createBufferedString(4, <<87, 65, 86, 69>>),
            createBufferedString(4, <<102, 109, 116, 32>>),
            createdBufferedUnsignedNumber(4, 16),
            createdBufferedUnsignedNumber(2, FORMAT_TYPE),
            createdBufferedUnsignedNumber(2, NUMBER_CHANNELS),
            createdBufferedUnsignedNumber(4, SAMPLE_RATE),
            createdBufferedUnsignedNumber(4, SAMPLE_RATE * BITS_PER_SAMPLE * BYTES_PER_SAMPLE),
            createdBufferedUnsignedNumber(2, NUMBER_CHANNELS * BYTES_PER_SAMPLE),
            createdBufferedUnsignedNumber(2, BITS_PER_SAMPLE),
            createBufferedString(4, <<100, 97, 116, 97>>),
            createdBufferedUnsignedNumber(4, dataSizeBytes) >>)

\* generateSound: Math.ceil(_SAMPLE_RATE / (frequency / cycles)) samples
generateSound(sound) ==
    [frequency |-> sound.frequency,
     invert |-> sound.invert,
     numSamples |-> CeilDiv(SAMPLE_RATE * sound.halfCycles, 2 * sound.frequency)
                    * NUMBER_CHANNELS * BYTES_PER_SAMPLE]

createBufferedProgramRecordBody(programBytes) ==
    IF Len(programBytes) = 0 THEN <<>>
    ELSE programBytes \o <<computeChecksum(Slice(programBytes, 0, Len(programBytes)))>>

WriteLengthRecordBodyAlwaysRun(length, autoRun) ==
    LET lengthField == writeUInt16LE(length)
    IN  IF ~lengthField.ok THEN lengthField
        ELSE Ok(lengthField.value \o <<213>>
                \o <<computeChecksum(lengthField.value \o <<213>>)>>)

\* a length record with the length written high byte first
WriteLengthRecordBodyBigEndian(length, autoRun) ==
    LET lengthField == writeUInt16LE(length)
        flag == IF autoRun THEN 213 ELSE 0
    IN  IF ~lengthField.ok THEN lengthField
        ELSE Ok(Reverse(lengthField.value) \o <<flag>>
                \o <<computeChecksum(lengthField.value \o <<flag>>)>>)

writeLengthRecordBody(length, autoRun) ==
    LET lengthField == writeUInt16LE(length)
        flag == IF autoRun THEN 213 ELSE 0
    IN  IF ~lengthField.ok THEN lengthField
        ELSE Ok(lengthField.value \o <<flag>>
                \o <<computeChecksum(Slice(lengthField.value \o <<flag>>, 0, 3))>>)

generateSoundsFromBuffer(buffer, highFreq) ==
    LET bits == Flatten([i \in 1..Len(buffer) |-> byteToBits(buffer[i])])
    IN  [i \in 1..Len(bits) |->
            Sound(IF bits[i] = 1 THEN (IF highFreq THEN 6000 ELSE 1000)
                  ELSE IF highFreq THEN 12000 ELSE 2000, 2, FALSE)]

RECURSIVE SumSamples(_, _, _)
\* the samples of the runs from lo to hi, summed by halves
SumSamples(runs, lo, hi) ==
    IF lo > hi THEN 0
    ELSE IF lo = hi THEN runs[lo].numSamples
    ELSE LET mid == (lo + hi) \div 2
         IN  SumSamples(runs, lo, mid) + SumSamples(runs, mid + 1, hi)

\* a list of sounds with one leader and one sync bit only
GenerateSoundsOneLeader(lengthHeaderBuffer, programBasicBuffer, programDataBuffer) ==
    << Sound(770, 6160, FALSE), Sound(2500, 1, FALSE), Sound(2000, 1, TRUE) >>
    \o generateSoundsFromBuffer(lengthHeaderBuffer, FALSE)
    \o generateSoundsFromBuffer(programBasicBuffer, FALSE)
    \o generateSoundsFromBuffer(programDataBuffer, TRUE)
    \o << Sound(2000, 20, FALSE), Sound(770, 20, FALSE) >>

\* generate: the list of sounds
GenerateSounds(lengthHeaderBuffer, programBasicBuffer, programDataBuffer) ==
    << Sound(770, 6160, FALSE), Sound(2500, 1, FALSE), Sound(2000, 1, TRUE) >>
    \o generateSoundsFromBuffer(lengthHeaderBuffer, FALSE)
    \o << Sound(770, 6160, FALSE), Sound(2500, 1, FALSE), Sound(2000, 1, TRUE) >>
    \o generateSoundsFromBuffer(programBasicBuffer, FALSE)
    \o generateSoundsFromBuffer(programDataBuffer, TRUE)
    \o << Sound(2000, 20, FALSE), Sound(770, 20, FALSE) >>

-----------------------------------------------------------------------------
(* WaveFileReader.                                                         *)

FREQUENCY_LEADER == 770

FREQUENCY_SYNC_BIT == 2500

FREQUENCY_ZERO_LOW_FREQUENCY == 2000

FREQUENCY_ZERO_HIGH_FREQUENCY == 12000

\* a reader that takes the low frequency of a zero for that of a one
FrequencyOfZeroForOne == FREQUENCY_ZERO_LOW_FREQUENCY

FREQUENCY_ONE_LOW_FREQUENCY == 1000

FREQUENCY_ONE_HIGH_FREQUENCY == 6000

MAXIMUM_FREQUENCY_DIVERGENCE == 250

\* Buffer.readUInt32LE
readUInt32LE(data, offset) ==
    data[offset + 1] + 256 * data[offset + 2] + 65536 * data[offset + 3]
    + 16777216 * data[offset + 4]

\* the constructor: a 16-bit read at 0x18
sampleRate(file) == readInt16(file.header, 24).value

\* the constructor: a 32-bit read at 0x28
numSamples(file) == readUInt32LE(file.header, 40)

Abs(x) == IF x < 0 THEN 0 - x ELSE x

RECURSIVE MinBy(_, _, _)
\* _.minBy(candidates, (f) => Math.abs(f - freq)): the first of the nearest
MinBy(candidates, freq, best) ==
    IF candidates = <<>> THEN best
    ELSE MinBy(Tail(candidates), freq,
               IF Abs(Head(candidates) - freq) < Abs(best - freq)
               THEN Head(candidates) ELSE best)

getClosestKnownFrequency(freq) ==
    LET knownFrequencyes ==
            << FREQUENCY_LEADER, FREQUENCY_ZERO_LOW_FREQUENCY, FREQUENCY_SYNC_BIT,
               FREQUENCY_ONE_LOW_FREQUENCY, FREQUENCY_ZERO_HIGH_FREQUENCY,
               FREQUENCY_ONE_HIGH_FREQUENCY >>
        min == MinBy(Tail(knownFrequencyes), freq, Head(knownFrequencyes))
        dist == freq - min
    IN  IF dist > MAXIMUM_FREQUENCY_DIVERGENCE THEN freq ELSE min

(* handleSample over the samples of one run.  The signal is low while the  *)
(* sine is positive and high elsewhere, the first sample of a run          *)
(* included.  A run that is not inverted goes low at its sample 1 and high *)
(* again at sample ceil(rate / (2 f)), the end of its first half cycle;    *)
(* the time between the two crossings gives a frequency whose nearest      *)
(* known frequency is that of the tone.  An inverted run of one half cycle *)
(* is high throughout and its half cycle is closed by the crossing at      *)
(* sample 1 of the run after it.  The value is the sample at which         *)
(* handleSample sees the first half cycle of the run completed.            *)
FirstHalfCycleSeenAt(run, start, rate) ==
    IF run.invert
    THEN start + run.numSamples + 1
    ELSE start + CeilDiv(rate, 2 * run.frequency)

\* handleSample at that sample: the entry [key, frequency] to note
handleSample(run, start, rate) ==
    LET crossing == FirstHalfCycleSeenAt(run, start, rate)
        closest == getClosestKnownFrequency(run.frequency)
        startOfWave == CeilDiv(rate, 2 * closest) - 1
        sampleCandidate == crossing - startOfWave
    IN  <<IF sampleCandidate > 0 THEN sampleCandidate ELSE crossing, closest>>

RECURSIVE StringLess(_, _)
\* a < b on strings
StringLess(a, b) ==
    IF b = <<>> THEN FALSE
    ELSE IF a = <<>> THEN TRUE
    ELSE IF Head(a) # Head(b) THEN Head(a) < Head(b)
    ELSE StringLess(Tail(a), Tail(b))

\* _.sortBy(Object.keys(frequencyMap)): the keys are strings, so the order
\* is that of strings; a key's place is one more than the number of keys
\* before it in that order
sortBy(map) ==
    LET keys == { <<map[k][1], NumberToString(map[k][1])>> : k \in 1..Len(map) }
        placed == { <<Cardinality({ o \in keys : StringLess(o[2], key[2]) }) + 1, key[1]>> :
                      key \in keys }
    IN  [r \in 1..Cardinality(keys) |-> (CHOOSE p \in placed : p[1] = r)[2]]

RECURSIVE OptimizedKeyIndex(_, _, _)
\* the while loop of computeOptimizedFrequencyMap for sample i, from the
\* index the loop had reached for an earlier sample
OptimizedKeyIndex(keys, keyIndex, i) ==
    IF keyIndex + 1 <= Len(keys) /\ keys[keyIndex + 1] < i
    THEN OptimizedKeyIndex(keys, keyIndex + 1, i)
    ELSE keyIndex

\* frequencyMap[key]
FrequencyOfKey(map, key) ==
    map[CHOOSE k \in 1..Len(map) : map[k][1] = key][2]

\* extractAndValidateDataFromBits; byteLength 0 stands for undefined as well,
\* which the test `if (byteLength)` treats alike
extractAndValidateDataFromBits(bits, byteLength) ==
    IF byteLength # 0
    THEN LET bitsNeededForBasicAndChecksum == (byteLength + 2) * 8
             basicBytes == bitsToBytesAndValidateChecksum(
                               Slice(bits, 0, bitsNeededForBasicAndChecksum))
             dataBits == Slice(bits, bitsNeededForBasicAndChecksum + 5, Len(bits))
             dataBytes == bitsToBytesAndValidateChecksum(dataBits)
         IN  IF ~basicBytes.ok THEN basicBytes
             ELSE IF Len(dataBits) < 8 THEN Ok([basic |-> basicBytes.value, data |-> <<>>])
             ELSE IF ~dataBytes.ok THEN dataBytes
             ELSE Ok([data |-> dataBytes.value, basic |-> basicBytes.value])
    ELSE LET dataBytes == bitsToBytesAndValidateChecksum(bits)
         IN  IF ~dataBytes.ok THEN dataBytes ELSE Ok([data |-> dataBytes.value])

\* a header search that falls back on sample 0 where no header is found
HeaderDataStartsAtOrDefault(file, map, which) ==
    LET found == { k \in 1..Len(map) : map[k][2] = FREQUENCY_SYNC_BIT }
        startKey == IF found = {} THEN 0
                    ELSE map[CHOOSE k \in found : \A j \in found : k <= j][1]
    IN  Ok(startKey + CeilDiv(sampleRate(file), 2250) + 2)

\* getSampleHeaderDataStartsAt: which is 0 or 1
getSampleHeaderDataStartsAt(file, map, which) ==
    LET headerKeys == SelectSeq(map, LAMBDA entry : entry[2] = FREQUENCY_LEADER)
        afterKey == headerKeys[which + 1][1]
        found == { k \in 1..Len(map) :
                     /\ map[k][2] = FREQUENCY_SYNC_BIT
                     /\ which + 1 <= Len(headerKeys)
                     /\ map[k][1] >= afterKey }
        startKey == map[CHOOSE k \in found : \A j \in found : k <= j][1]
        offset == CeilDiv(sampleRate(file), 2250) + 2
    IN  IF found = {} THEN Err("NoHeaderFound") ELSE Ok(startKey + offset)

-----------------------------------------------------------------------------
(* A program sent through a WAVE file: generate(shouldAutoRun), then       *)
(* read() of the file, a step for every run of samples and for every pass  *)
(* of the loop of readBytes.                                               *)

\* `1 PRINT`, `10 GOTO 1` and `20 REM A`
WaveLines ==
    { <<49, 32, 80, 82, 73, 78, 84>>,
      <<49, 48, 32, 71, 79, 84, 79, 32, 49>>,
      <<50, 48, 32, 82, 69, 77, 32, 65>> }

WavePrograms == UNION { [1..n -> WaveLines] : n \in 0..MaxWaveLines }

\* `1 REM ` and a comment of n letters A
LongLine(n) == <<49, 32, 82, 69, 77, 32>> \o [i \in 1..n |-> 65]

\* programs whose last line is a long line, alone or after `1 PRINT`
LargePrograms ==
    { pre \o <<LongLine(LongCommentLength)>> :
        pre \in { <<>>, << <<49, 32, 80, 82, 73, 78, 84>> >> } }

InitWave ==
    /\ lines \in WavePrograms \cup LargePrograms
    /\ shouldAutoRun \in BOOLEAN
    /\ wave = <<>>
    /\ damage = <<>>
    /\ wavePc = "start"
    /\ runIndex = 0
    /\ runStart = 0
    /\ lastRecordedFrequency = 0
    /\ frequencyMap = <<>>
    /\ sortedKeys = <<>>
    /\ currentKeyIndex = 0
    /\ rbSample = 0
    /\ rbBits = <<>>
    /\ lengthBytes = <<>>
    /\ programLength = 0
    /\ readResult = None
    /\ rereads = 0
    /\ firstResult = <<>>
    /\ SamplesIdle
    /\ AsmIdle
    /\ UtilIdle

\* new WaveFileGenerator(lines).generate(shouldAutoRun): the program
\* assembled, the two record bodies, the sounds, their samples and the header
\* before them; then the reader's constructor and the first statement of
\* read() on the file
Generate ==
    /\ wavePc = "start"
    /\ \E programBytes \in {assemble(lines)} :
       \E lengthHeaderBuffer \in
               {writeLengthRecordBody(Len(programBytes.value), shouldAutoRun)} :
       \E sounds \in {GenerateSounds(lengthHeaderBuffer.value,
                                     createBufferedProgramRecordBody(programBytes.value),
                                     createBufferedProgramRecordBody(<<>>))} :
       \E soundBuffer \in {[i \in DOMAIN sounds |-> generateSound(sounds[i])]} :
       \E header \in {getHeader(SumSamples(soundBuffer, 1, Len(soundBuffer)))} :
           IF programBytes.ok /\ lengthHeaderBuffer.ok /\ header.ok
           THEN /\ wave' = [header |-> header.value, samples |-> soundBuffer]
                /\ wavePc' = "samples"
           ELSE /\ wave' = <<>>
                /\ wavePc' = "error"
    /\ runIndex' = 1
    /\ runStart' = 0
    /\ lastRecordedFrequency' = 0
    /\ frequencyMap' = <<>>
    /\ UNCHANGED <<shouldAutoRun, damage, readBytesVars, lengthBytes, programLength, readResult>>
    /\ UNCHANGED <<asmVars, utilVars, rereadVars, sampleVars>>

\* read(): handleSample for the samples of one run
HandleSamples ==
    /\ wavePc = "samples"
    /\ runIndex <= Len(wave.samples)
    /\ LET run == wave.samples[runIndex]
           crossing == FirstHalfCycleSeenAt(run, runStart, sampleRate(wave))
           entry == handleSample(run, runStart, sampleRate(wave))
       IN  IF crossing < numSamples(wave) /\ entry[2] # lastRecordedFrequency
           THEN /\ frequencyMap' = Append(frequencyMap, entry)
                /\ lastRecordedFrequency' = entry[2]
           ELSE UNCHANGED <<frequencyMap, lastRecordedFrequency>>
    /\ runIndex' = runIndex + 1
    /\ runStart' = runStart + wave.samples[runIndex].numSamples
    /\ UNCHANGED <<shouldAutoRun, wave, damage, wavePc, readBytesVars, lengthBytes,
                   programLength, readResult>>
    /\ UNCHANGED <<asmVars, utilVars, rereadVars, sampleVars>>

\* read(): computeOptimizedFrequencyMap; the map is held as the sorted keys
\* and the index into them, and the loop over the samples is run below for
\* the samples that readBytes looks at, which it does in ascending order
ComputeOptimizedFrequencyMap ==
    /\ wavePc = "samples"
    /\ runIndex > Len(wave.samples)
    /\ sortedKeys' = sortBy(frequencyMap)
    /\ currentKeyIndex' = 1
    /\ wavePc' = "optimized"
    /\ UNCHANGED <<shouldAutoRun, wave, damage, zeroCrossingVars, rbSample, rbBits,
                   lengthBytes, programLength, readResult>>
    /\ UNCHANGED <<asmVars, utilVars, rereadVars, sampleVars>>

\* readProgramLength and readProgram up to the loop of readBytes
StartReadBytes ==
    /\ wavePc \in {"optimized", "length"}
    /\ LET which == IF wavePc = "optimized" THEN 0 ELSE 1
           start == getSampleHeaderDataStartsAt(wave, frequencyMap, which)
       IN  IF start.ok
           THEN /\ rbSample' = start.value
                /\ rbBits' = <<>>
                /\ wavePc' = (IF which = 0 THEN "readLength" ELSE "readProgram")
                /\ UNCHANGED readResult
           ELSE /\ readResult' = start
                /\ wavePc' = "error"
                /\ UNCHANGED <<rbSample, rbBits>>
    /\ UNCHANGED <<shouldAutoRun, wave, damage, zeroCrossingVars, sortedKeys, currentKeyIndex,
                   lengthBytes, programLength>>
    /\ UNCHANGED <<asmVars, utilVars, rereadVars, sampleVars>>

\* one pass of the loop of readBytes that adds a bit
ReadBit ==
    /\ wavePc \in {"readLength", "readProgram"}
    /\ rbSample < numSamples(wave)
    /\ LET keyIndex == OptimizedKeyIndex(sortedKeys, currentKeyIndex, rbSample)
           inferredFrequency == FrequencyOfKey(frequencyMap, sortedKeys[keyIndex])
           isOne == inferredFrequency \in
                        {FREQUENCY_ONE_LOW_FREQUENCY, FREQUENCY_ONE_HIGH_FREQUENCY}
           timeAdvancement == CeilDiv(sampleRate(wave), inferredFrequency)
       IN  /\ inferredFrequency \notin {FREQUENCY_LEADER, 0 - 1, FREQUENCY_SYNC_BIT}
           /\ currentKeyIndex' = keyIndex
           /\ IF inferredFrequency \notin
                     {FREQUENCY_ZERO_LOW_FREQUENCY, FREQUENCY_ONE_LOW_FREQUENCY,
                      FREQUENCY_ZERO_HIGH_FREQUENCY, FREQUENCY_ONE_HIGH_FREQUENCY}
              THEN /\ readResult' = Err("UnexpectedFrequency")
                   /\ wavePc' = "error"
                   /\ UNCHANGED <<rbSample, rbBits>>
              ELSE /\ rbBits' = Append(rbBits, IF isOne THEN 1 ELSE 0)
                   /\ rbSample' = rbSample + timeAdvancement
                   /\ UNCHANGED <<readResult, wavePc>>
    /\ UNCHANGED <<shouldAutoRun, wave, damage, zeroCrossingVars, sortedKeys,
                   lengthBytes, programLength>>
    /\ UNCHANGED <<asmVars, utilVars, rereadVars, sampleVars>>

\* the loop of readBytes left at the end of the samples or at a leader or
\* sync tone, then extractAndValidateDataFromBits and the rest of
\* readProgramLength or of readProgram
FinishReadBytes ==
    /\ wavePc \in {"readLength", "readProgram"}
    /\ LET keyIndex == OptimizedKeyIndex(sortedKeys, currentKeyIndex, rbSample)
           inferredFrequency == FrequencyOfKey(frequencyMap, sortedKeys[keyIndex])
           record == extractAndValidateDataFromBits(
                         rbBits, IF wavePc = "readLength" THEN 0 ELSE programLength)
           length == readInt16(record.value.data, 0)
       IN  /\ \/ ~(rbSample < numSamples(wave))
              \/ inferredFrequency \in {FREQUENCY_LEADER, 0 - 1, FREQUENCY_SYNC_BIT}
           /\ currentKeyIndex' = (IF rbSample < numSamples(wave)
                                  THEN keyIndex ELSE currentKeyIndex)
           /\ IF ~record.ok
              THEN /\ readResult' = record
                   /\ wavePc' = "error"
                   /\ UNCHANGED <<lengthBytes, programLength>>
              ELSE IF wavePc = "readProgram"
              THEN /\ readResult' = record
                   /\ wavePc' = "done"
                   /\ UNCHANGED <<lengthBytes, programLength>>
              ELSE IF ~length.ok
              THEN /\ readResult' = length
                   /\ wavePc' = "error"
                   /\ UNCHANGED <<lengthBytes, programLength>>
              ELSE /\ lengthBytes' = record.value.data
                   /\ programLength' = length.value
                   /\ wavePc' = "length"
                   /\ UNCHANGED readResult
    /\ UNCHANGED <<shouldAutoRun, wave, damage, zeroCrossingVars, sortedKeys, rbSample, rbBits>>
    /\ UNCHANGED <<asmVars, utilVars, rereadVars, sampleVars>>

NextWave ==
    \/ Generate
    \/ HandleSamples
    \/ ComputeOptimizedFrequencyMap
    \/ StartReadBytes
    \/ ReadBit
    \/ FinishReadBytes

SpecWave == InitWave /\ [][NextWave]_vars

-----------------------------------------------------------------------------
(* C2.  The basic bytes read back from the file generated for a program of *)
(* well-formed lines are the bytes of assemble, byte for byte and in       *)
(* length, whichever the auto-run flag.                                    *)

C2_DecodedBasicIsAssembled ==
    (wavePc = "done" /\ WellFormed(lines)) =>
        readResult.value.basic = assemble(lines).value

-----------------------------------------------------------------------------
(* C3.  The auto-run flag through the file.                                *)

\* C3 as claimed: read() returns an auto-run flag, equal to the one that
\* generate was given.
C3_DecodedAutoRunReturned ==
    wavePc = "done" =>
        /\ "autoRun" \in DOMAIN readResult.value
        /\ readResult.value.autoRun = shouldAutoRun

\* C3 amended: the length record that the reader validates has 0xD5 as its
\* byte 2 exactly when generate was given autoRun = true, but the reader
\* takes only the length from the record: what read() returns has the fields
\* basic and data and no auto-run flag.
C3_AutoRunInRecordNotReturned ==
    /\ wavePc \in {"length", "readProgram", "done"} =>
          /\ Len(lengthBytes) = 3
          /\ (lengthBytes[3] = 213) <=> shouldAutoRun
          /\ programLength = lengthBytes[1] + 256 * lengthBytes[2]
    /\ wavePc = "done" => DOMAIN readResult.value = {"basic", "data"}

\* a file generated without auto-run has been read to its end
C3_Witness ==
    /\ wavePc = "done"
    /\ ~shouldAutoRun
    /\ Len(lines) = MaxWaveLines
    /\ lengthBytes[3] = 0

-----------------------------------------------------------------------------
(* A WAVE file damaged between generate() and read(): one byte of the      *)
(* program block, before its checksum byte, holds another value, so the    *)
(* eight tones of that byte are those of the other value; the checksum     *)
(* tones are those generate() wrote.                                       *)

\* the bits of a byte that the damage turns over
DamageMasks == {1, 255}

DamagedPrograms == UNION { [1..n -> WaveLines] : n \in 1..MaxDamagedLines }

InitDamage ==
    /\ lines \in DamagedPrograms
    /\ shouldAutoRun \in BOOLEAN
    /\ wave = <<>>
    /\ damage = <<>>
    /\ wavePc = "start"
    /\ runIndex = 0
    /\ runStart = 0
    /\ lastRecordedFrequency = 0
    /\ frequencyMap = <<>>
    /\ sortedKeys = <<>>
    /\ currentKeyIndex = 0
    /\ rbSample = 0
    /\ rbBits = <<>>
    /\ lengthBytes = <<>>
    /\ programLength = 0
    /\ readResult = None
    /\ rereads = 0
    /\ firstResult = <<>>
    /\ SamplesIdle
    /\ AsmIdle
    /\ UtilIdle

\* the file changed before the reader is given it, which holds the bytes of
\* the file from then on: the tones of the first record and of the second
\* leader and sync bit are the 38 runs before the program block
CorruptProgramBlock ==
    /\ wavePc = "samples"
    /\ runIndex = 1
    /\ damage = <<>>
    /\ rereads = 0
    /\ \E programBytes \in {assemble(lines).value} :
       \E index \in 1..Len(programBytes) :
       \E mask \in DamageMasks :
       \E value \in {BitXor(programBytes[index], mask)} :
       \E sounds \in {generateSoundsFromBuffer(<<value>>, FALSE)} :
       \E first \in {38 + 8 * (index - 1)} :
       \E samples \in {[i \in DOMAIN wave.samples |->
                          IF i > first /\ i <= first + 8
                          THEN generateSound(sounds[i - first])
                          ELSE wave.samples[i]]} :
       \E header \in {getHeader(SumSamples(samples, 1, Len(samples)))} :
           /\ header.ok
           /\ wave' = [header |-> header.value, samples |-> samples]
           /\ damage' = <<index, value>>
    /\ UNCHANGED <<shouldAutoRun, wavePc, zeroCrossingVars, readBytesVars,
                   lengthBytes, programLength, readResult>>
    /\ UNCHANGED <<asmVars, utilVars, rereadVars, sampleVars>>

NextDamage ==
    \/ NextWave
    \/ CorruptProgramBlock

SpecDamage == InitDamage /\ [][NextDamage]_vars

-----------------------------------------------------------------------------
(* C11.  When one byte of the program block before its checksum byte has   *)
(* been changed to a different value and the checksum byte is the one the  *)
(* encoder wrote, read() does not return: after the length record has been *)
(* validated, it fails with a checksum mismatch and no program bytes.      *)

C11_DamagedBlockFailsChecksum ==
    damage # <<>> =>
        /\ damage[2] # assemble(lines).value[damage[1]]
        /\ wavePc # "done"
        /\ wavePc = "error" =>
              /\ readResult = Err("ChecksumMismatch")
              /\ Len(lengthBytes) = 3
              /\ programLength = Len(assemble(lines).value)

\* the read of a file whose program block was damaged after its first byte
\* has failed
C11_Witness ==
    /\ damage # <<>>
    /\ damage[1] > 1
    /\ wavePc = "error"
    /\ readResult.error = "ChecksumMismatch"

-----------------------------------------------------------------------------
(* C12.  In the header of every file that generate() writes, the byte-rate *)
(* field, the four bytes at offset 28 read as a little-endian number, is   *)
(* sampleRate * 8 * 1 / 8, that is 48000.                                  *)

C12_ByteRateField ==
    wavePc \notin {"idle", "start", "error"} =>
        /\ Len(wave.header) = 44
        /\ readUInt32LE(wave.header, 28) = (SAMPLE_RATE * 8 * 1) \div 8
        /\ readUInt32LE(wave.header, 28) = 48000

-----------------------------------------------------------------------------
(* The reader's constructor on the headers of files recorded at other      *)
(* rates and of other lengths: the header generate() writes, with the      *)
(* sample rate field at offset 24 holding the declared rate.               *)

DeclaredRates ==
    {1, 8000, 11025, 22050, 44100, 48000, 65535, 65536, 88200, 96000, 176400, 192000}

DataSizes == {0, 1, 255, 256, 65535, 65536, 100000, 16777216, 2000000000}

HeaderOfRate(rate, dataSizeBytes) ==
    [i \in 1..44 |-> IF i \in 25..28 THEN writeUInt32LE(rate).value[i - 24]
                     ELSE getHeader(dataSizeBytes).value[i]]

InitHeader ==
    /\ wave \in { [header |-> HeaderOfRate(rate, size), samples |-> <<>>] :
                    rate \in DeclaredRates, size \in DataSizes }
    /\ lines = <<>>
    /\ shouldAutoRun = FALSE
    /\ damage = <<>>
    /\ wavePc = "idle"
    /\ runIndex = 0
    /\ runStart = 0
    /\ lastRecordedFrequency = 0
    /\ frequencyMap = <<>>
    /\ sortedKeys = <<>>
    /\ currentKeyIndex = 0
    /\ rbSample = 0
    /\ rbBits = <<>>
    /\ lengthBytes = <<>>
    /\ programLength = 0
    /\ readResult = None
    /\ rereads = 0
    /\ firstResult = <<>>
    /\ SamplesIdle
    /\ AsmIdle
    /\ UtilIdle

\* new WaveFileReader(path): the two fields read from the header
Constructor ==
    /\ uOp = "none"
    /\ uOp' = "constructor"
    /\ uOut' = Ok([sampleRate |-> sampleRate(wave), numSamples |-> numSamples(wave)])
    /\ UNCHANGED <<uBytes, uIndex, uBits>>
    /\ UNCHANGED <<asmVars, waveVars>>

\* the program lengths handed to writeLengthRecordBody
ProgramLengths == {0, 1, 2, 42, 213, 255, 256, 257, 4660, 32768, 65279, 65535, 65536}

\* writeLengthRecordBody(programLength, shouldAutoRun)
CallWriteLengthRecordBody ==
    /\ uOp = "none"
    /\ \E length \in ProgramLengths, autoRun \in BOOLEAN :
           uOut' = Ok([programLength |-> length, shouldAutoRun |-> autoRun,
                       buffer |-> writeLengthRecordBody(length, autoRun)])
    /\ uOp' = "writeLengthRecordBody"
    /\ UNCHANGED <<uBytes, uIndex, uBits>>
    /\ UNCHANGED <<asmVars, waveVars>>

\* the frequencies handed to getClosestKnownFrequency
MeasuredFrequencies ==
    {100, 400, 519, 520, 770, 900, 1000, 1020, 1021, 1250, 1251, 1500, 1700, 2000,
     2250, 2251, 2400, 2500, 2750, 2751, 3000, 4000, 5749, 5750, 6000, 6250, 6251,
     9000, 11750, 12000, 12250, 12251, 24000}

\* getClosestKnownFrequency(freq)
CallGetClosestKnownFrequency ==
    /\ uOp = "none"
    /\ \E freq \in MeasuredFrequencies :
           uOut' = Ok([freq |-> freq, closest |-> getClosestKnownFrequency(freq)])
    /\ uOp' = "getClosestKnownFrequency"
    /\ UNCHANGED <<uBytes, uIndex, uBits>>
    /\ UNCHANGED <<asmVars, waveVars>>

NextHeader ==
    \/ Constructor
    \/ CallWriteLengthRecordBody
    \/ CallGetClosestKnownFrequency

SpecHeader == InitHeader /\ [][NextHeader]_vars

-----------------------------------------------------------------------------
(* C13.  The sample rate the reader uses is the unsigned 32-bit            *)
(* little-endian number at offset 24 of the header, whatever the declared  *)
(* rate, and its number of samples is the unsigned 32-bit number at offset *)
(* 40.                                                                     *)

C13_HeaderFieldsAre32Bit ==
    uOp = "constructor" =>
        /\ uOut.value.sampleRate = readUInt32LE(wave.header, 24)
        /\ uOut.value.numSamples = readUInt32LE(wave.header, 40)

-----------------------------------------------------------------------------
(* C14.  The tones of the file generate() writes are, in this order and    *)
(* with nothing else between them: the leader of 3080 cycles of 770 Hz,    *)
(* half a cycle of 2500 Hz, half a cycle of 2000 Hz inverted, one full     *)
(* cycle per bit of the four bytes of the length record, most significant  *)
(* bit first, 1000 Hz for a 1 and 2000 Hz for a 0; then the leader and the *)
(* two half cycles again, one cycle per bit of the program bytes and of    *)
(* their checksum in the same way, one cycle of 6000 or 12000 Hz per bit   *)
(* of the data record, 10 cycles of 2000 Hz and 10 cycles of 770 Hz.       *)

\* bit j of a byte, 1 being its most significant bit
BitOfByte(byte, j) == (byte \div (2 ^ (8 - j))) % 2

\* a tone of a number of cycles
Tone(frequency, cycles) == Sound(frequency, 2 * cycles, FALSE)

\* one cycle per bit of the bytes of a record
TonesOfRecord(record, one, zero) ==
    [i \in 1..(8 * Len(record)) |->
        Tone(IF BitOfByte(record[((i - 1) \div 8) + 1], ((i - 1) % 8) + 1) = 1
             THEN one ELSE zero, 1)]

LeaderAndSync == << Tone(770, 3080), Sound(2500, 1, FALSE), Sound(2000, 1, TRUE) >>

ClaimedTones ==
    LET programBytes == assemble(lines).value
        lengthRecord == writeLengthRecordBody(Len(programBytes), shouldAutoRun).value
        programRecord == programBytes \o <<computeChecksum(programBytes)>>
        dataRecord == <<>>
    IN  LeaderAndSync \o TonesOfRecord(lengthRecord, 1000, 2000)
        \o LeaderAndSync \o TonesOfRecord(programRecord, 1000, 2000)
        \o TonesOfRecord(dataRecord, 6000, 12000)
        \o << Tone(2000, 10), Tone(770, 10) >>

C14_ToneSequence ==
    (wavePc \notin {"idle", "start", "error"} /\ damage = <<>>) =>
        \A tones \in {ClaimedTones} :
            wave.samples = [i \in 1..Len(tones) |-> generateSound(tones[i])]

\* the file of a program of the most lines, to run by itself, has been written
C14_Witness ==
    /\ wavePc = "samples"
    /\ shouldAutoRun
    /\ Len(lines) = MaxWaveLines
    /\ Len(wave.samples) = 3 + 32 + 3 + 8 * (Len(assemble(lines).value) + 1) + 2
    /\ wave.samples[4 + 16].frequency = 1000

-----------------------------------------------------------------------------
(* C15.  For a program length from 0 to 65535 and either auto-run flag,    *)
(* writeLengthRecordBody returns exactly four bytes: the low byte of the   *)
(* length, its high byte, 0xD5 when the program is to run by itself and    *)
(* 0x00 otherwise, and the XOR of 0xFF and of these three bytes.           *)

C15_LengthRecordBody ==
    (uOp = "writeLengthRecordBody" /\ uOut.value.programLength \in 0..65535) =>
        LET length == uOut.value.programLength
            flag == IF uOut.value.shouldAutoRun THEN 213 ELSE 0
        IN  /\ uOut.value.buffer.ok
            /\ uOut.value.buffer.value =
                   << length % 256, length \div 256, flag,
                      BitXor(BitXor(BitXor(255, length % 256), length \div 256), flag) >>

\* the record of a length of two different bytes, for a program to run by itself
C15_Witness ==
    /\ uOp = "writeLengthRecordBody"
    /\ uOut.value.programLength = 4660
    /\ uOut.value.shouldAutoRun
    /\ uOut.value.buffer.value = <<52, 18, 213, 12>>

-----------------------------------------------------------------------------
(* disassemble() on bytes that no assembler wrote: vectors of a few byte   *)
(* values, among them addresses below, at and above 0x0800, and the bytes  *)
(* of the test of an invalid next address.                                 *)

RawByteValues == {0, 1, 6, 8}

InvalidNextAddressBytes == <<0, 1, 18, 1, 0>>

RawImages ==
    UNION { [1..n -> RawByteValues] : n \in 0..MaxRawBytes }
    \cup {InvalidNextAddressBytes}

\* new ApplesoftDisassembler(bytes).disassemble(), before its loop
InitDis ==
    /\ disBytes \in RawImages
    /\ currentAddress = 2048
    /\ disassembledLines = <<>>
    /\ disPc = "loop"
    /\ lines = <<>>
    /\ assembled = None
    /\ mapped = None
    /\ UtilIdle
    /\ WaveIdle

NextDis == DisassembleStep

SpecDis == InitDis /\ [][NextDis]_vars

\* the next-line address at the current position, when both its bytes are
\* in the vector
NextAddressHere == readInt16(disBytes, currentAddress - 2048)

-----------------------------------------------------------------------------
(* C16.  Whenever the next-line address read at the current position is 0  *)
(* or lower than the current address, disassemble stops without an error   *)
(* and returns the lines decoded so far; on the bytes 00 01 12 01 00 it     *)
(* returns no line.                                                        *)

C16_StopsAtInvalidNextAddress ==
    [][ ( /\ disPc = "loop"
          /\ currentAddress - 2048 < Len(disBytes)
          /\ NextAddressHere.ok
          /\ (NextAddressHere.value = 0 \/ NextAddressHere.value < currentAddress) )
        => ( /\ disPc' = "done"
             /\ disassembledLines' = disassembledLines
             /\ disBytes = InvalidNextAddressBytes => disassembledLines' = <<>> ) ]_vars

\* disassemble has returned one line, having stopped at a next-line address
\* that is not 0 and is lower than the current address
C16_Witness ==
    /\ disPc = "done"
    /\ Len(disassembledLines) = 1
    /\ NextAddressHere.ok
    /\ NextAddressHere.value # 0
    /\ NextAddressHere.value < currentAddress

-----------------------------------------------------------------------------
(* C17.  Whenever the read of the next-line address, or the line from the  *)
(* current position to the next-line address, would run past the end of    *)
(* the bytes, disassemble fails with an error and returns no partial or    *)
(* shortened line.                                                         *)

C17_TruncatedInputFails ==
    [][ ( /\ disPc = "loop"
          /\ currentAddress - 2048 < Len(disBytes)
          /\ \/ ~NextAddressHere.ok
             \/ /\ NextAddressHere.value # 0
                /\ NextAddressHere.value >= currentAddress
                /\ NextAddressHere.value - 2048 > Len(disBytes) )
        => ( /\ disPc' = "error"
             /\ disassembledLines' = disassembledLines ) ]_vars

-----------------------------------------------------------------------------
(* C18.  The encoder and the size of the tokenized image.                  *)

\* the next-line address of the last line of a program: 0x0800, the bytes
\* of its lines (a body and five more bytes each) and one
LastNextAddress(ls) == 2048 + SumLen(ProgramData(ls)) + 5 * Len(ls) + 1

\* generate() has raised an error
GenerateFailed == wavePc = "error" /\ wave = <<>>

\* C18 as claimed: for every list of well-formed lines, whatever their
\* number and the size of the tokenized image, generate returns a WAVE
\* buffer and never raises an error.
C18_EncoderTotal ==
    (wavePc # "start" /\ WellFormed(lines)) => ~GenerateFailed

\* C18 amended: for a list of well-formed lines generate returns a WAVE
\* buffer when the next-line address of every line fits in 16 bits, and
\* raises an error when that of the last line is above 0xFFFF.
C18_EncoderTotalWithin16Bits ==
    (wavePc # "start" /\ WellFormed(lines)) =>
        (GenerateFailed <=> (lines # <<>> /\ LastNextAddress(lines) > 65535))

\* generate() has returned the file of a program of well-formed lines
C18_Witness ==
    /\ wavePc = "samples"
    /\ runIndex = 1
    /\ Len(lines) = MaxWaveLines
    /\ WellFormed(lines)
    /\ LastNextAddress(lines) <= 65535
    /\ Len(wave.header) = 44

-----------------------------------------------------------------------------
(* read() called again on a reader whose read() has returned or has raised *)
(* an error, on the file of `1 PRINT` or of the empty program, damaged or  *)
(* not.                                                                    *)

RereadPrograms == { <<>>, << <<49, 32, 80, 82, 73, 78, 84>> >> }

InitReread ==
    /\ lines \in RereadPrograms
    /\ shouldAutoRun \in BOOLEAN
    /\ wave = <<>>
    /\ damage = <<>>
    /\ wavePc = "start"
    /\ runIndex = 0
    /\ runStart = 0
    /\ lastRecordedFrequency = 0
    /\ frequencyMap = <<>>
    /\ sortedKeys = <<>>
    /\ currentKeyIndex = 0
    /\ rbSample = 0
    /\ rbBits = <<>>
    /\ lengthBytes = <<>>
    /\ programLength = 0
    /\ readResult = None
    /\ rereads = 0
    /\ firstResult = <<>>
    /\ SamplesIdle
    /\ AsmIdle
    /\ UtilIdle

\* the first statement of a further read(): the zero-crossing state is
\* assigned the initial state, and the loop over the samples starts at
\* sample 0; the optimized map is held as the sorted keys and the index
\* into them
ReadAgain ==
    /\ wavePc \in {"done", "error"}
    /\ wave # <<>>
    /\ rereads < MaxRereads
    /\ rereads' = rereads + 1
    /\ firstResult' = (IF rereads = 0 THEN [pc |-> wavePc, result |-> readResult]
                       ELSE firstResult)
    /\ \E state \in {getInitialZeroCrossingCounterState} :
          /\ frequencyMap' = state.frequencyMap
          /\ lastRecordedFrequency' = state.lastRecordedFrequency
          /\ sortedKeys' = state.optimizedFrequencyMap
          /\ runStart' = state.lastCrossingTime
    /\ currentKeyIndex' = 0
    /\ runIndex' = 1
    /\ wavePc' = "samples"
    /\ UNCHANGED <<shouldAutoRun, wave, damage, rbSample, rbBits, lengthBytes,
                   programLength, readResult>>
    /\ UNCHANGED <<asmVars, utilVars, sampleVars>>

NextReread ==
    \/ NextDamage
    \/ ReadAgain

SpecReread == InitReread /\ [][NextReread]_vars

-----------------------------------------------------------------------------
(* C19.  Every read() call starts from the initial zero-crossing state     *)
(* (no frequency recorded, empty frequency maps, no crossing yet), also    *)
(* after earlier read() calls on the same reader, and a further read()     *)
(* ends as the first call on that file did, with the same result.          *)

C19_ReadStartsAfresh ==
    /\ (wavePc = "samples" /\ runIndex = 1) =>
          /\ frequencyMap = <<>>
          /\ sortedKeys = <<>>
          /\ lastRecordedFrequency = 0
          /\ runStart = 0
    /\ (rereads > 0 /\ wavePc \in {"done", "error"}) =>
          firstResult = [pc |-> wavePc, result |-> readResult]

\* the last further read() of a file has returned its program
C19_Witness ==
    /\ rereads = MaxRereads
    /\ wavePc = "done"
    /\ firstResult.pc = "done"
    /\ Len(readResult.value.basic) > 3
    /\ Len(frequencyMap) > 3

-----------------------------------------------------------------------------
(* C20.  When read() has decoded a program length L above 0, what it       *)
(* returns as basic is exactly the L bytes of the first 8 L bits of the    *)
(* program block, the byte of the next 8 bits being their checksum and no  *)
(* part of the program returned.                                           *)

C20_ProgramBytesWithoutChecksum ==
    (wavePc = "done" /\ programLength > 0) =>
        LET L == programLength
            bytes == bitsToBytes(Slice(rbBits, 0, (L + 1) * 8))
        IN  /\ Len(bytes) = L + 1
            /\ bytes[L + 1] = computeChecksum(Slice(bytes, 0, L))
            /\ readResult.value.basic = Slice(bytes, 0, L)

-----------------------------------------------------------------------------
(* read() from computeOptimizedFrequencyMap on, for the frequency maps     *)
(* that the samples of other files leave: keys of one, two and three       *)
(* digits, with or without leaders, sync bits and tones that stand for no  *)
(* bit.  Object.keys and Object.entries give the keys of a map in          *)
(* ascending order, which is the order of the entries here, and            *)
(* handleSample records no frequency twice in a row.                       *)

MapKeys == <<2, 10, 30, 400, 800, 810>>

\* the maps: 0 for a key that the map does not have
FrequencyMaps ==
    { m \in { SelectSeq([i \in 1..6 |-> <<MapKeys[i], c[i]>>], LAMBDA e : e[2] # 0) :
                c \in { <<c1, c2, c3, c4, c5, c6>> :
                          c1 \in {0, 770, 2500}, c2 \in {0, 2500, 770, 3000},
                          c3 \in {0, 2000, 1000, 6000}, c4 \in {0, 1000, 2000, 12000},
                          c5 \in {0, 770, 2500, 3000}, c6 \in {0, 2500, 770} } } :
        \A k \in 1..(Len(m) - 1) : m[k][2] # m[k + 1][2] }

InitMap ==
    /\ frequencyMap \in FrequencyMaps
    /\ wave = [header |-> getHeader(MaxSamples).value, samples |-> <<>>]
    /\ wavePc = "samples"
    /\ runIndex = 1
    /\ runStart = MaxSamples
    /\ lastRecordedFrequency =
           (IF frequencyMap = <<>> THEN 0 ELSE frequencyMap[Len(frequencyMap)][2])
    /\ lines = <<>>
    /\ shouldAutoRun = FALSE
    /\ damage = <<>>
    /\ sortedKeys = <<>>
    /\ currentKeyIndex = 0
    /\ rbSample = 0
    /\ rbBits = <<>>
    /\ lengthBytes = <<>>
    /\ programLength = 0
    /\ readResult = None
    /\ rereads = 0
    /\ firstResult = <<>>
    /\ SamplesIdle
    /\ AsmIdle
    /\ UtilIdle

NextMap ==
    \/ ComputeOptimizedFrequencyMap
    \/ StartReadBytes
    \/ ReadBit
    \/ FinishReadBytes

SpecMap == InitMap /\ [][NextMap]_vars

\* optimizedFrequencyMap[j]: the key at the index the loop of
\* computeOptimizedFrequencyMap has reached at sample j
OptimizedKeyAt(j) == sortedKeys[OptimizedKeyIndex(sortedKeys, 1, j)]

\* the largest key of the frequency map that is not after sample j, if any
KeysNotAfter(j) == { frequencyMap[k][1] : k \in { k \in 1..Len(frequencyMap) : frequencyMap[k][1] <= j } }

-----------------------------------------------------------------------------
(* C21.  After computeOptimizedFrequencyMap, for every sample j of the     *)
(* file and every frequency map that is not empty, whatever the numbers of *)
(* digits of its keys, optimizedFrequencyMap[j] is the largest key that is *)
(* not after j, and the inferred frequency at j the one recorded there.    *)

C21_OptimizedKeyIsLargestNotAfter ==
    (wavePc = "optimized" /\ frequencyMap # <<>>) =>
        \A j \in 0..(numSamples(wave) - 1) :
            KeysNotAfter(j) # {} =>
                /\ OptimizedKeyAt(j) \in KeysNotAfter(j)
                /\ \A k \in KeysNotAfter(j) : k <= OptimizedKeyAt(j)

-----------------------------------------------------------------------------
(* C22.  The smoothing of a measured frequency f gives the known frequency *)
(* closest to f when that is at most 250 Hz from f, above or below, and f  *)
(* itself when it is further, the known frequencies being 770, 1000, 1500, *)
(* 2000, 2250, 2500, 6000 and 12000 Hz.                                    *)

ClaimedKnownFrequencies == {770, 1000, 1500, 2000, 2250, 2500, 6000, 12000}

C22_SmoothedWithin250 ==
    uOp = "getClosestKnownFrequency" =>
        LET f == uOut.value.freq
            nearest == { k \in ClaimedKnownFrequencies :
                           \A o \in ClaimedKnownFrequencies : Abs(f - k) <= Abs(f - o) }
        IN  IF \E k \in nearest : Abs(f - k) <= 250
            THEN uOut.value.closest \in nearest
            ELSE uOut.value.closest = f


(***************************************************************************)
(* handleSample, one sample at a time.  The numbers of the zero crossing   *)
(* counter are fractions here: the crossing time is interpolated between   *)
(* two samples.  A number is [n, d] with d >= 0 and no common divisor;     *)
(* d = 0 holds what a division by zero gives: n = 1 is Infinity, n = -1 is *)
(* -Infinity and n = 0 is NaN.                                             *)
(***************************************************************************)
\* the samples of the files handed to a reader one sample at a time
MaxFileSamples == 4

RECURSIVE GCD(_, _)
GCD(a, b) == IF b = 0 THEN a ELSE GCD(b, a % b)

Sign(x) == IF x < 0 THEN 0 - 1 ELSE IF x > 0 THEN 1 ELSE 0

\* the number n / d
Rational(n, d) ==
    IF d = 0 THEN [n |-> Sign(n), d |-> 0]
    ELSE LET g == GCD(Abs(n), Abs(d))
         IN  [n |-> (Sign(d) * n) \div g, d |-> Abs(d) \div g]

\* Number.isFinite
isFinite(x) == x.d # 0

\* a - b
Minus(a, b) ==
    IF (a.d = 0 /\ a.n = 0) \/ (b.d = 0 /\ b.n = 0) THEN Rational(0, 0)
    ELSE IF a.d = 0 /\ b.d = 0 THEN (IF a.n = b.n THEN Rational(0, 0) ELSE a)
    ELSE IF a.d = 0 THEN a
    ELSE IF b.d = 0 THEN Rational(0 - b.n, 0)
    ELSE Rational(a.n * b.d - b.n * a.d, a.d * b.d)

\* getRawValueAtSample on the bytes of the data chunk
getRawValueAtSample(file, sample) ==
    IF sample + 44 >= 44 + Len(file.samples) THEN 0
    ELSE LET byte == file.samples[sample + 1]
             data == IF byte >= 128 THEN byte - 256 ELSE byte
         IN  IF data < 0 THEN (128 + data) * (0 - 1) ELSE (data - 128) * (0 - 1)

\* handleSample: valueState
ValueState(value) == IF value >= 0 THEN "high" ELSE "low"

\* handleSample: fixedSample
FixedSample(state, sample, value) ==
    LET totalDistance == value - state.lastFrequency
        ratio == Rational(value, totalDistance)
        distance == [ratio EXCEPT !.n = Abs(ratio.n)]
    IN  Minus(Rational(sample, 1), distance)

\* handleSample: baseFrequency
BaseFrequency(state, rate, sample, value) ==
    LET timeSinceLastCrossing ==
            Minus(FixedSample(state, sample, value), state.lastCrossingTime)
    IN  Rational(rate * timeSinceLastCrossing.d, 2 * timeSinceLastCrossing.n)

\* getClosestKnownFrequency of a measured frequency that is a fraction
ClosestKnownFrequencyOf(freq) ==
    LET knownFrequencyes ==
            << FREQUENCY_LEADER, FREQUENCY_ZERO_LOW_FREQUENCY, FREQUENCY_SYNC_BIT,
               FREQUENCY_ONE_LOW_FREQUENCY, FREQUENCY_ZERO_HIGH_FREQUENCY,
               FREQUENCY_ONE_HIGH_FREQUENCY >>
        scaled == [i \in 1..Len(knownFrequencyes) |-> knownFrequencyes[i] * freq.d]
        min == MinBy(Tail(scaled), freq.n, Head(scaled)) \div freq.d
    IN  IF freq.n - min * freq.d > MAXIMUM_FREQUENCY_DIVERGENCE * freq.d
        THEN freq ELSE Rational(min, 1)

\* frequencyMap[key] = closest, the entries kept in the order of their keys
PutFrequency(map, key, closest) ==
    LET before == SelectSeq(map, LAMBDA e : e[1] < key)
        after == SelectSeq(map, LAMBDA e : e[1] > key)
    IN  before \o << <<key, closest>> >> \o after

\* handleSample(sample): the state it leaves
handleSampleAt(state, file, sample) ==
    LET value == getRawValueAtSample(file, sample)
        rate == sampleRate(file)
        fixedSample == FixedSample(state, sample, value)
        baseFrequency == BaseFrequency(state, rate, sample, value)
        closest == ClosestKnownFrequencyOf(baseFrequency)
        startOfWave == CeilDiv(rate * closest.d, 2 * closest.n) - 1
        sampleCandidate == sample - startOfWave
        key == IF sampleCandidate > 0 THEN sampleCandidate ELSE sample
        crossed == [state EXCEPT !.signal = ValueState(value)]
        noted == IF closest # state.lastRecordedFrequency
                 THEN [crossed EXCEPT
                         !.frequencyMap = PutFrequency(state.frequencyMap, key, closest),
                         !.lastRecordedFrequency = closest]
                 ELSE crossed
    IN  IF state.signal # ValueState(value)
        THEN IF ~ isFinite(baseFrequency)
             THEN crossed
             ELSE [noted EXCEPT !.lastCrossingTime = fixedSample,
                                !.lastFrequency = value]
        ELSE [state EXCEPT !.lastFrequency = value]

\* the bytes a sample of the data chunk holds: amplitudes 2, 1, 0, -1, -2
SampleBytes == {126, 127, 128, 129, 130}

\* files whose header declares MaxFileSamples samples
SampleFiles ==
    { [header |-> getHeader(MaxFileSamples).value, samples |-> bytes] :
        bytes \in UNION { [1..n -> SampleBytes] :
                            n \in (MaxFileSamples - 1)..MaxFileSamples } }

InitSample ==
    /\ lines = <<>>
    /\ AsmIdle
    /\ UtilIdle
    /\ shouldAutoRun = FALSE
    /\ wave \in SampleFiles
    /\ damage = <<>>
    /\ wavePc = "handleSample"
    /\ runIndex = 0
    /\ runStart = 0
    /\ lastRecordedFrequency = 0
    /\ frequencyMap = <<>>
    /\ sortedKeys = <<>>
    /\ currentKeyIndex = 0
    /\ rbSample = 0
    /\ rbBits = <<>>
    /\ lengthBytes = <<>>
    /\ programLength = 0
    /\ readResult = None
    /\ rereads = 0
    /\ firstResult = <<>>
    /\ zeroCrossingCounterState =
           [getInitialZeroCrossingCounterState EXCEPT
              !.lastCrossingTime = Rational(0, 1),
              !.lastRecordedFrequency = Rational(0, 1)]
    /\ nextSample = 0

\* read(): one turn of its loop over the samples
HandleSample ==
    /\ wavePc = "handleSample"
    /\ nextSample < numSamples(wave)
    /\ zeroCrossingCounterState' =
           handleSampleAt(zeroCrossingCounterState, wave, nextSample)
    /\ nextSample' = nextSample + 1
    /\ UNCHANGED <<shouldAutoRun, wave, damage, wavePc, zeroCrossingVars, readBytesVars,
                   lengthBytes, programLength, readResult, rereadVars>>
    /\ UNCHANGED <<asmVars, utilVars>>

NextSample == HandleSample

SpecSample == InitSample /\ [][NextSample]_vars

\* handleSample sees a sign change at the sample it is handed
SignChanges ==
    zeroCrossingCounterState.signal # ValueState(getRawValueAtSample(wave, nextSample))

\* the frequency it computes there is not finite
FrequencyNotFinite ==
    ~ isFinite(BaseFrequency(zeroCrossingCounterState, sampleRate(wave), nextSample,
                             getRawValueAtSample(wave, nextSample)))

\* C23: a sample at which handleSample detects a sign change and computes a
\* frequency that is not finite sets lastCrossingTime to the estimated
\* crossing time and the stored last amplitude to the value of the sample,
\* and leaves frequencyMap and lastRecordedFrequency as they were
C23_NonFiniteFrequencyUpdatesCrossing ==
    [][ (nextSample' = nextSample + 1 /\ SignChanges /\ FrequencyNotFinite) =>
          /\ zeroCrossingCounterState'.lastCrossingTime =
                 FixedSample(zeroCrossingCounterState, nextSample,
                             getRawValueAtSample(wave, nextSample))
          /\ zeroCrossingCounterState'.lastFrequency =
                 getRawValueAtSample(wave, nextSample)
          /\ zeroCrossingCounterState'.frequencyMap =
                 zeroCrossingCounterState.frequencyMap
          /\ zeroCrossingCounterState'.lastRecordedFrequency =
                 zeroCrossingCounterState.lastRecordedFrequency ]_vars


-----------------------------------------------------------------------------
\* getInferredFrequencyAtSample(sample) for the sample readBytes is at
InferredFrequencyAtSample ==
    FrequencyOfKey(frequencyMap,
                   sortedKeys[OptimizedKeyIndex(sortedKeys, currentKeyIndex, rbSample)])

\* readBytes is in its loop
InReadBytes == wavePc \in {"readLength", "readProgram"}

\* C24: a pass of the loop of readBytes ends the block without the error of
\* an unexpected frequency at the end of the samples or at an inferred
\* frequency of 770, 2500 or -1; it adds bit 1 for 1000 and 6000, bit 0 for
\* 2000 and 12000, and then advances by ceil(sampleRate / f) samples; it
\* fails with the unexpected-frequency error for any other frequency
C24_ReadBytesLoop ==
    [][ (InReadBytes /\ <<wavePc, rbSample, rbBits, readResult>>' #
                            <<wavePc, rbSample, rbBits, readResult>>) =>
          \A f \in {IF rbSample < numSamples(wave) THEN InferredFrequencyAtSample ELSE 0 - 1} :
              IF f \in {770, 2500, 0 - 1}
              THEN /\ rbBits' = rbBits
                   /\ rbSample' = rbSample
                   /\ wavePc' \notin {"readLength", "readProgram"}
                   /\ readResult' # Err("UnexpectedFrequency")
              ELSE IF f \in {1000, 6000, 2000, 12000}
              THEN /\ rbBits' = rbBits \o << IF f \in {1000, 6000} THEN 1 ELSE 0 >>
                   /\ rbSample' = rbSample + ((sampleRate(wave) + f - 1) \div f)
                   /\ wavePc' = wavePc
              ELSE /\ readResult' = Err("UnexpectedFrequency")
                   /\ wavePc' = "error" ]_vars

\* a block that ended with the error at 3000 Hz after bits of both values,
\* one of them from a high tone
C24_Witness ==
    /\ wavePc = "error"
    /\ readResult = Err("UnexpectedFrequency")
    /\ \E i, j \in 1..Len(rbBits) : rbBits[i] = 1 /\ rbBits[j] = 0
    /\ \E k \in 1..Len(frequencyMap) : frequencyMap[k][2] \in {6000, 12000}

\* the keys of the 770 Hz entries of frequencyMap, in ascending order
LeaderKeys ==
    LET keys == { frequencyMap[k][1] :
                    k \in { k \in 1..Len(frequencyMap) : frequencyMap[k][2] = 770 } }
    IN  [r \in 1..Cardinality(keys) |->
            CHOOSE key \in keys : Cardinality({ o \in keys : o < key }) = r - 1]

\* the keys of the 2500 Hz entries at or after the leader of header `which`
SyncKeysOfHeader(which) ==
    IF Len(LeaderKeys) < which + 1 THEN {}
    ELSE { frequencyMap[k][1] :
             k \in { k \in 1..Len(frequencyMap) :
                       /\ frequencyMap[k][2] = 2500
                       /\ frequencyMap[k][1] >= LeaderKeys[which + 1] } }

\* C25: locating header `which` fails with the header-not-found error when
\* frequencyMap has fewer than which + 1 entries of 770 Hz or no 2500 Hz
\* entry at or after the key of that 770 Hz entry; otherwise the block starts
\* at the least such 2500 Hz key + ceil(sampleRate / 2250) + 2
C25_HeaderStart ==
    [][ (wavePc \in {"optimized", "length"} /\ wavePc' # wavePc) =>
          \A which \in {IF wavePc = "optimized" THEN 0 ELSE 1} :
              IF SyncKeysOfHeader(which) = {}
              THEN wavePc' = "error" /\ readResult' = Err("NoHeaderFound")
              ELSE /\ wavePc' \in {"readLength", "readProgram"}
                   /\ \E key \in SyncKeysOfHeader(which) :
                        /\ \A o \in SyncKeysOfHeader(which) : key <= o
                        /\ rbSample' = key + ((sampleRate(wave) + 2249) \div 2250) + 2 ]_vars

\* the second header was looked for and found after a first 2500 Hz entry
\* that lies before the second leader
C25_Witness ==
    /\ wavePc = "readProgram"
    /\ Len(LeaderKeys) >= 2
    /\ \E k \in 1..Len(frequencyMap) :
           frequencyMap[k][2] = 2500 /\ frequencyMap[k][1] < LeaderKeys[2]


-----------------------------------------------------------------------------
\* the bit vector handed to the decoder does not end on a byte
EndsMidByte == uOp = "bitsToBytesAndValidateChecksum" /\ Len(uBits) % 8 # 0

\* C26 as claimed: a bit stream whose number of bits is not a multiple of 8
\* makes the decoder fail with a truncated-bit-stream error
C26_TruncatedBitStreamFails ==
    EndsMidByte => uOut = Err("TruncatedBitStream")

\* C26 as the code has it: the bits after the last whole byte are ignored;
\* the outcome is that of the whole bytes alone, the bytes before the last
\* when the last is their checksum and a checksum mismatch otherwise
C26_TrailingBitsIgnored ==
    EndsMidByte =>
        uOut = (IF uBytes # <<>> /\
                   uBytes[Len(uBytes)] = computeChecksum(SubSeq(uBytes, 1, Len(uBytes) - 1))
                THEN Ok(SubSeq(uBytes, 1, Len(uBytes) - 1))
                ELSE Err("ChecksumMismatch"))

\* two bytes and their checksum followed by one more bit were decoded to
\* the two bytes
C26_Witness ==
    /\ EndsMidByte
    /\ Len(uBits) = 25
    /\ uOut = Ok(SubSeq(uBytes, 1, 2))


-----------------------------------------------------------------------------
(* Lines with a quoted string: what stands before the string, the string,  *)
(* and what stands after it.                                               *)

\* nothing, `PRINT `, `PRINT`, `X$=`, `X$ = `, `REM ` and `LET = + `
BeforeQuote ==
    { <<>>, <<80, 82, 73, 78, 84, 32>>, <<80, 82, 73, 78, 84>>, <<88, 36, 61>>,
      <<88, 36, 32, 61, 32>>, <<82, 69, 77, 32>>, <<76, 69, 84, 32, 61, 32, 43, 32>> }

\* "A B", "GOTO = 1", "" and "A  B"
QuotedStrings ==
    { <<34, 65, 32, 66, 34>>, <<34, 71, 79, 84, 79, 32, 61, 32, 49, 34>>,
      <<34, 34>>, <<34, 65, 32, 32, 66, 34>> }

\* nothing, ` + X$`, `+X$` and `;`
AfterQuote == { <<>>, <<32, 43, 32, 88, 36>>, <<43, 88, 36>>, <<59>> }

\* the programs of one such line, numbered 1 or 10
QuotePrograms ==
    { << number \o <<32>> \o before \o quoted \o after >> :
        number \in { <<49>>, <<49, 48>> }, before \in BeforeQuote,
        quoted \in QuotedStrings, after \in AfterQuote }

InitQuote ==
    /\ lines \in QuotePrograms
    /\ AsmIdle
    /\ UtilIdle
    /\ WaveIdle

SpecQuote == InitQuote /\ [][Next]_vars

\* the positions of the double quotes of a line, in ascending order
QuotePositions(line) ==
    LET at == { i \in 1..Len(line) : line[i] = 34 }
    IN  [r \in 1..Cardinality(at) |->
            CHOOSE i \in at : Cardinality({ o \in at : o < i }) = r - 1]

\* the double-quoted substrings of a line, quotes included: from every odd
\* quote to the quote after it
QuotedSubstrings(line) ==
    LET q == QuotePositions(line)
    IN  { SubSeq(line, q[2 * r - 1], q[2 * r]) : r \in 1..(Len(q) \div 2) }

\* sub stands in text, unchanged and contiguous
OccursIn(sub, text) ==
    \E start \in 1..(Len(text) - Len(sub) + 1) :
        SubSeq(text, start, start + Len(sub) - 1) = sub

\* C27: in the tokenized body of every line that is no REM comment each
\* double-quoted substring of the line stands unchanged and contiguous,
\* quotes and inner spaces included, wherever its opening quote stands
C27_QuotedSubstringKept ==
    (assembled.ok /\ Len(lines) = 1) =>
        \A line \in {lines[1]} :
            ~IsCommentLine(Tail(MatchAtoms(line, 1))) =>
                \A quoted \in QuotedSubstrings(line) :
                    OccursIn(quoted, SubSeq(assembled.value, 5, Len(assembled.value) - 3))


-----------------------------------------------------------------------------
\* C28: the text of a disassembled line is its bytes rendered, an opcode as
\* its word between single spaces and any other byte as its character,
\* joined, with every two consecutive spaces collapsed to one, and trimmed;
\* the line is the line number, a space and that text
C28_AllDoubleSpacesCollapsed ==
    \A i \in 1..Len(disassembledLines) :
        \A d \in {disassembledLines[i]} :
            /\ d.dataString =
                   trim(ReplaceAllDoubleSpaces(
                            Flatten([b \in 1..Len(d.dataBytes) |-> RenderByte(d.dataBytes[b])])))
            /\ d.fullInstruction = NumberToString(d.line) \o <<32>> \o d.dataString


-----------------------------------------------------------------------------
\* the length of the byte vectors on which the end of the loop is awaited
MaxFairBytes == 5

\* disassemble() of a byte vector of that length at most, or of 8 bytes that
\* start with a line of 6 bytes, where the loop is not held up for ever
InitDisFair ==
    /\ InitDis
    /\ \/ Len(disBytes) <= MaxFairBytes
       \/ Len(disBytes) >= 6 /\ SubSeq(disBytes, 1, 6) = <<6, 8, 1, 0, 1, 0>>

SpecDisFair == InitDisFair /\ [][NextDis]_vars /\ WF_vars(NextDis)

\* C29: disassemble terminates on every byte vector: every pass of its loop
\* ends the loop, raises an error or leaves currentAddress higher than it
\* was, also where the next-line address is currentAddress or
\* currentAddress + 1
C29_DisassembleTerminates ==
    /\ [][ disPc = "loop" =>
             \/ disPc' \in {"done", "error"}
             \/ currentAddress' > currentAddress ]_vars
    /\ <>(disPc \in {"done", "error"})

\* the loop was left with an error at a next-line address that is the
\* current address or one above it
C29_Witness ==
    /\ disPc = "error"
    /\ NextAddressHere.ok
    /\ NextAddressHere.value \in {currentAddress, currentAddress + 1}


-----------------------------------------------------------------------------
\* C30: every line that assembleLine accepts starts with a decimal integer
\* in [0, 63998], and the 16-bit little-endian value at offsets 2..3 of its
\* tokenized line is that integer; a line whose first atom is no number is
\* not assembled
C30_AcceptedLineNumber ==
    mapped.ok =>
        \A i \in 1..Len(lines) :
            /\ HasValidLineNumber(lines[i])
            /\ FieldAt(mapped.value[i], 2) = DigitsValue(0, FirstAtom(lines[i]))

====
